---- MODULE Spec2Model ----
(***************************************************************************)
(* A model of the dummydata package: the entity models (Product, Customer, *)
(* Order), the CSV layer, the data generator and the report generator.     *)
(*                                                                         *)
(* Representation.                                                         *)
(*  - A Python str that the code formats or parses (order numbers, dates,  *)
(*    numeric CSV cells) is a sequence of one-character strings, so that   *)
(*    formatting and parsing are computed, never assumed.  Free text that  *)
(*    the code only copies (names, descriptions, headers) is an opaque     *)
(*    TLA+ string.                                                         *)
(*  - A Python float holding money is an integer number of mills (1/1000   *)
(*    of a dollar): 3.57 is 3570.  round(x, 2) yields a multiple of 10     *)
(*    mills, round(x, 3) any number of mills.  Arithmetic is exact; the    *)
(*    binary rounding error of IEEE doubles is not modelled.               *)
(*  - A field whose Python type varies (date, invoice_date, charges,       *)
(*    special_charges, and every cell of a row) is a tagged record         *)
(*    [t |-> type, v |-> value].                                           *)
(*  - The random module is modelled by nondeterministic choice.  The       *)
(*    variable rnd holds, for every draw of the code, the finite support   *)
(*    the choice is taken from.                                            *)
(***************************************************************************)
EXTENDS Integers, Sequences, FiniteSets, TLC

VARIABLES
    pc,         \* position of the running entry point
    entry,      \* which ReportGenerator method runs: "monthly" | "single"
    year,       \* argument year of generate_orders
    month,      \* argument month of generate_orders
    num_orders, \* argument num_orders of generate_orders
    force_new,  \* argument force_new_base_data
    fs,         \* the file system: file name -> [exists, rows]
    io,         \* what the environment does to the write_csv calls of this run
    products,   \* local products of generate_monthly_orders
    customers,  \* local customers of generate_monthly_orders
    dates,      \* local dates of generate_orders
    orders,     \* local orders of generate_orders
    cur,        \* <<order>> between Order(...) and orders.append, else <<>>
    order_rows, \* local order_rows of generate_monthly_orders
    result,     \* what the entry point returned, and the exception it met
    log,        \* events: Order(...), calculate_totals, to_row, write_csv, read_csv
    rnd,        \* supports of the random draws
    probe       \* input and output of a directly called pure function

vars == <<pc, entry, year, month, num_orders, force_new, fs, io, products,
          customers, dates, orders, cur, order_rows, result, log, rnd, probe>>

-----------------------------------------------------------------------------
(* Bounds of the model *)

MaxOrders == 2

-----------------------------------------------------------------------------
(* Python values *)

PyStr(s)   == [t |-> "str",   v |-> s]
PyInt(n)   == [t |-> "int",   v |-> n]
PyFloat(m) == [t |-> "float", v |-> m]
PyDate(d)  == [t |-> "date",  v |-> d]
PyNone     == [t |-> "None",  v |-> 0]

\* Formatted strings are sequences of characters; E is the empty one.
E == <<>>

IsNumeric(x) == x.t \in {"int", "float"}     \* isinstance(x, (int, float))

\* Python truthiness of a value (of a formatted string when it is a str).
Truthy(x) ==
    CASE x.t = "None"  -> FALSE
      [] x.t = "str"   -> x.v # E
      [] x.t = "int"   -> x.v # 0
      [] x.t = "float" -> x.v # 0
      [] OTHER         -> TRUE

-----------------------------------------------------------------------------
(* Integer formatting: f"{n}" and f"{n:0Wd}" *)

DigitChars == <<"0", "1", "2", "3", "4", "5", "6", "7", "8", "9">>

Digit(d) == DigitChars[d + 1]

RECURSIVE DecDigits(_)
DecDigits(n) ==
    IF n < 10 THEN <<Digit(n)>> ELSE DecDigits(n \div 10) \o <<Digit(n % 10)>>

RECURSIVE ZeroPad(_, _)
ZeroPad(s, w) == IF Len(s) >= w THEN s ELSE ZeroPad(<<"0">> \o s, w)

\* str(n), f"{n}"
FormatInt(n) == IF n < 0 THEN <<"-">> \o DecDigits(-n) ELSE DecDigits(n)

\* f"{n:0Wd}": zero padded to at least w characters, the sign included.
FormatIntPadded(n, w) ==
    IF n < 0 THEN <<"-">> \o ZeroPad(DecDigits(-n), w - 1)
             ELSE ZeroPad(DecDigits(n), w)

IsDigitChar(c) == \E d \in 0..9 : DigitChars[d + 1] = c

AllDigits(s) == \A k \in 1..Len(s) : IsDigitChar(s[k])

-----------------------------------------------------------------------------
(* calendar and datetime.date *)

MINYEAR == 1
MAXYEAR == 9999

\* isleap without the century rules
isleapJulian(y) == y % 4 = 0

isleap(y) == y % 4 = 0 /\ (y % 100 # 0 \/ y % 400 = 0)

mdays == <<31, 28, 31, 30, 31, 30, 31, 31, 30, 31, 30, 31>>

\* calendar.monthrange(year, month) raises IllegalMonthError outside 1..12.
MonthIsLegal(m) == m \in 1..12

\* calendar.monthrange(year, month)[1]
DaysInMonth(y, m) == mdays[m] + (IF m = 2 /\ isleap(y) THEN 1 ELSE 0)

\* datetime.date(year, month, day) raises ValueError outside MINYEAR..MAXYEAR.
DateIsLegal(y, m, d) ==
    /\ y \in MINYEAR..MAXYEAR
    /\ m \in 1..12
    /\ d \in 1..DaysInMonth(y, m)

Date(y, m, d) == [year |-> y, month |-> m, day |-> d]

DateLE(a, b) ==
    \/ a.year < b.year
    \/ a.year = b.year /\ a.month < b.month
    \/ a.year = b.year /\ a.month = b.month /\ a.day <= b.day

\* date + timedelta(days=1); raises OverflowError past 9999-12-31.
PlusOneDayOverflows(a) == a.year = MAXYEAR /\ a.month = 12 /\ a.day = 31

PlusOneDay(a) ==
    IF a.day < DaysInMonth(a.year, a.month)
    THEN Date(a.year, a.month, a.day + 1)
    ELSE IF a.month < 12 THEN Date(a.year, a.month + 1, 1)
                         ELSE Date(a.year + 1, 1, 1)

\* date.strftime('%m/%d/%Y'); glibc does not pad %Y.
strftime(a) ==
    FormatIntPadded(a.month, 2) \o <<"/">> \o FormatIntPadded(a.day, 2)
        \o <<"/">> \o FormatInt(a.year)

\* dates.sort(): insertion sort, stable.
RECURSIVE InsertSorted(_, _)
InsertSorted(s, a) ==
    IF s = <<>> THEN <<a>>
    ELSE IF DateLE(s[Len(s)], a) THEN Append(s, a)
    ELSE Append(InsertSorted(SubSeq(s, 1, Len(s) - 1), a), s[Len(s)])

\* dates.sort() left out
KeepOrder(ds) == ds

RECURSIVE SortDates(_)
SortDates(s) ==
    IF s = <<>> THEN <<>>
    ELSE InsertSorted(SortDates(SubSeq(s, 1, Len(s) - 1)), s[Len(s)])

-----------------------------------------------------------------------------
(* Text of numbers: str(float), float(str), int(str), str.strip, str.isdigit *)

RECURSIVE StripTrailingZeros(_)
StripTrailingZeros(s) ==
    IF Len(s) > 1 /\ s[Len(s)] = "0"
    THEN StripTrailingZeros(SubSeq(s, 1, Len(s) - 1)) ELSE s

Abs(n) == IF n < 0 THEN -n ELSE n

\* a float written with two decimals, as '%.2f' % x
FloatReprCents(m) ==
    (IF m < 0 THEN <<"-">> ELSE <<>>)
        \o DecDigits(Abs(m) \div 1000) \o <<".">>
        \o ZeroPad(DecDigits((Abs(m) % 1000) \div 10), 2)

\* repr(x) of a float of m mills: "7140.0", "3.57", "-0.535".
FloatRepr(m) ==
    (IF m < 0 THEN <<"-">> ELSE <<>>)
        \o DecDigits(Abs(m) \div 1000) \o <<".">>
        \o StripTrailingZeros(ZeroPad(DecDigits(Abs(m) % 1000), 3))

RECURSIVE DigitsValue(_)
DigitsValue(s) ==
    IF s = <<>> THEN 0
    ELSE 10 * DigitsValue(SubSeq(s, 1, Len(s) - 1))
         + (CHOOSE d \in 0..9 : DigitChars[d + 1] = s[Len(s)])

RECURSIVE StripLeft(_)
StripLeft(s) == IF s # <<>> /\ s[1] = " " THEN StripLeft(Tail(s)) ELSE s

RECURSIVE StripRight(_)
StripRight(s) ==
    IF s # <<>> /\ s[Len(s)] = " "
    THEN StripRight(SubSeq(s, 1, Len(s) - 1)) ELSE s

\* s.strip()
Strip(s) == StripRight(StripLeft(s))

\* s.isdigit()
isdigit(s) == s # <<>> /\ AllDigits(s)

Unsigned(s) == IF s # <<>> /\ s[1] \in {"-", "+"} THEN Tail(s) ELSE s

IsNegative(s) == s # <<>> /\ s[1] = "-"

DotAt(s) == {k \in 1..Len(s) : s[k] = "."}

\* int(s) accepts an optionally signed run of digits, blanks around it.
IntSyntax(s) == isdigit(Unsigned(Strip(s)))

IntValue(s) ==
    (IF IsNegative(Strip(s)) THEN -1 ELSE 1) * DigitsValue(Unsigned(Strip(s)))

\* float(s) accepts [sign] digits [. digits] with a digit on one side at least
\* (exponents, inf and nan are outside the model's alphabet).
FloatSyntax(s) ==
    LET u == Unsigned(Strip(s)) IN
    \/ isdigit(u)
    \/ \E k \in DotAt(u) :
          LET ip == SubSeq(u, 1, k - 1)
              fp == SubSeq(u, k + 1, Len(u))
          IN  /\ AllDigits(ip) /\ AllDigits(fp)
              /\ Len(ip) + Len(fp) > 0

\* The value in mills (fraction digits past the third are dropped).
FloatValue(s) ==
    LET u    == Unsigned(Strip(s))
        sign == IF IsNegative(Strip(s)) THEN -1 ELSE 1
    IN  IF DotAt(u) = {} THEN sign * 1000 * DigitsValue(u)
        ELSE LET k  == CHOOSE j \in DotAt(u) : TRUE
                 ip == SubSeq(u, 1, k - 1)
                 fp == SubSeq(u, k + 1, Len(u))
                 f3 == SubSeq(fp \o <<"0", "0", "0">>, 1, 3)
             IN  sign * (1000 * DigitsValue(ip) + DigitsValue(f3))

\* Results of an expression that may raise: exc = "none" and the value, or the
\* name of the exception.
Ok(v)      == [exc |-> "none", v |-> v]
Raise(e)   == [exc |-> e, v |-> PyNone]

\* float(x)
ToFloat(x) ==
    CASE x.t = "float" -> Ok(x.v)
      [] x.t = "int"   -> Ok(1000 * x.v)
      [] x.t = "str"   -> IF FloatSyntax(x.v) THEN Ok(FloatValue(x.v))
                                              ELSE Raise("ValueError")
      [] OTHER         -> Raise("TypeError")

\* int(x)
ToInt(x) ==
    CASE x.t = "int"   -> Ok(x.v)
      [] x.t = "float" -> Ok((IF x.v < 0 THEN -1 ELSE 1) * (Abs(x.v) \div 1000))
      [] x.t = "str"   -> IF IntSyntax(x.v) THEN Ok(IntValue(x.v))
                                            ELSE Raise("ValueError")
      [] OTHER         -> Raise("TypeError")

-----------------------------------------------------------------------------
(* round(): exact decimal rounding, ties to even *)

\* The integer nearest to n / d (d > 0), a tie going to the even neighbour.
RoundHalfEven(n, d) ==
    LET q == n \div d
        r == n - q * d
    IN  IF 2 * r < d THEN q
        ELSE IF 2 * r > d THEN q + 1
        ELSE IF q % 2 = 0 THEN q ELSE q + 1

\* round(n / d mills, 2) in mills
Round2(n, d) == 10 * RoundHalfEven(n, 10 * d)

\* round(n / d mills, 3) in mills
Round3(n, d) == RoundHalfEven(n, d)

-----------------------------------------------------------------------------
(* config.py *)

ORDER_HEADERS ==
    <<"CustomerName", "Order#", "Seq", "Seq Desc", "PO #", "PO Req",
      "Date", "Status", "Invoice#", "Invoice Date", "BOL", "Product",
      "Unit Price", "Quantity", "Product", "Charges", "Special Charges",
      "Total Taxes", "Total", "Exempt Taxes", "Total Cost",
      "Margin Per Gallon">>

PRODUCT_HEADERS ==
    <<"Product Code", "ProductName", "Abbrev", "Product Group",
      "CycleCode", "Method", "Account Group", "Tax Profile", "Tax Group",
      "Packaging", "Unit of Measure", "Status", "Stocked", "UPC Code">>

CUSTOMER_HEADERS ==
    <<"CustomerID", "CustomerName", "Address", "City", "State", "Zip",
      "ContactName", "Phone", "Email">>

SEQUENCE_HEADERS ==
    <<"CustomerID", "SequenceID", "SequenceDesc">>

\* The first two of the ten rows of SAMPLE_PRODUCTS.
SAMPLE_PRODUCTS == <<
    <<"REG001", "Regular Gasoline", "REG", "Fuel", "C1", "Direct",
      "Retail", "T1", "Fuel Tax", "Bulk", "Gallon", "Active", "Yes",
      "0123456789">>,
    <<"PRM001", "Premium Gasoline", "PRM", "Fuel", "C1", "Direct",
      "Retail", "T1", "Fuel Tax", "Bulk", "Gallon", "Active", "Yes",
      "1234567890">> >>

StandardChargeNames ==
    <<"Labor Charge", "Pump Fee", "After Hours Fee", "Weekend Delivery",
      "Rush Delivery">>

\* STANDARD_CHARGES, in mills
STANDARD_CHARGES ==
    [n \in {StandardChargeNames[k] : k \in 1..Len(StandardChargeNames)} |->
        CASE n = "Labor Charge"     -> 85000
          [] n = "Pump Fee"         -> 45000
          [] n = "After Hours Fee"  -> 125000
          [] n = "Weekend Delivery" -> 75000
          [] n = "Rush Delivery"    -> 95000]

\* DEFAULT_NUM_CUSTOMERS, scaled down from 20
DEFAULT_NUM_CUSTOMERS == 2

-----------------------------------------------------------------------------
(* models/product.py *)

\* round(random.uniform(a, b), 2) for a and b in mills, the draw being
\* a + (b - a) * u / 10 for the tenth u of the interval that random() gives.
UniformCents(a, b, u) == Round2(a * (10 - u) + b * u, 10)

\* The price band Product.from_row draws: min_price from
\* random.uniform(2.50, 3.20), max_price from random.uniform(3.50, 4.50).
DrawMinPrice(u) == UniformCents(2500, 3200, u)
DrawMaxPrice(u) == UniformCents(3500, 4500, u)

\* row[k] if len(row) > k else default   (k counts from 0)
CellOr(row, k, default) == IF Len(row) > k THEN row[k + 1].v ELSE default

\* Product.from_row, with the two prices it draws; raises ValueError on a row
\* of fewer than two cells.
Product_from_row_raises(row) == Len(row) < 2

Product_from_row(row, min_price, max_price) ==
    [code            |-> row[1].v,
     name            |-> row[2].v,
     abbrev          |-> CellOr(row, 2, ""),
     product_group   |-> CellOr(row, 3, "Fuel"),
     cycle_code      |-> CellOr(row, 4, ""),
     method          |-> CellOr(row, 5, "Direct"),
     account_group   |-> CellOr(row, 6, ""),
     tax_profile     |-> CellOr(row, 7, ""),
     tax_group       |-> CellOr(row, 8, ""),
     packaging       |-> CellOr(row, 9, "Bulk"),
     unit_of_measure |-> CellOr(row, 10, "Gallon"),
     status          |-> CellOr(row, 11, "Active"),
     stocked         |-> CellOr(row, 12, "Yes"),
     upc_code        |-> CellOr(row, 13, ""),
     min_price       |-> min_price,
     max_price       |-> max_price]

Product_to_row(p) ==
    <<PyStr(p.code), PyStr(p.name), PyStr(p.abbrev), PyStr(p.product_group),
      PyStr(p.cycle_code), PyStr(p.method), PyStr(p.account_group),
      PyStr(p.tax_profile), PyStr(p.tax_group), PyStr(p.packaging),
      PyStr(p.unit_of_measure), PyStr(p.status), PyStr(p.stocked),
      PyStr(p.upc_code)>>

get_random_price_of_any_band(p, u) == UniformCents(2500, 4500, u)

\* Product.get_random_price: round(random.uniform(min_price, max_price), 2)
get_random_price(p, u) == UniformCents(p.min_price, p.max_price, u)

-----------------------------------------------------------------------------
(* models/customer.py *)

Sequence(seq_id, description) ==
    [seq_id |-> seq_id, description |-> description]

Customer_from_row_raises(row) == Len(row) < 2

Customer_from_row(row) ==
    [customer_id  |-> row[1].v,
     name         |-> row[2].v,
     address      |-> CellOr(row, 2, ""),
     city         |-> CellOr(row, 3, ""),
     state        |-> CellOr(row, 4, ""),
     zip_code     |-> CellOr(row, 5, ""),
     contact_name |-> CellOr(row, 6, ""),
     phone        |-> CellOr(row, 7, ""),
     email        |-> CellOr(row, 8, ""),
     sequences    |-> <<>>]

Customer_to_row(c) ==
    <<PyStr(c.customer_id), PyStr(c.name), PyStr(c.address), PyStr(c.city),
      PyStr(c.state), PyStr(c.zip_code), PyStr(c.contact_name),
      PyStr(c.phone), PyStr(c.email)>>

add_sequence(c, seq_id, description) ==
    [c EXCEPT !.sequences = Append(@, Sequence(seq_id, description))]

has_sequences(c) == Len(c.sequences) > 0

-----------------------------------------------------------------------------
(* models/order.py *)

\* Order(...): the dataclass constructor with the arguments generate_orders
\* passes; the five financial fields take their defaults.
Order(customer_name, order_number, sequence_id, sequence_desc, po_number, po_required, date, status, invoice_number, invoice_date, bol, product_name, unit_price, quantity, additional_product, charges, special_charges) ==
    [customer_name      |-> customer_name,
     order_number       |-> order_number,
     sequence_id        |-> sequence_id,
     sequence_desc      |-> sequence_desc,
     date               |-> date,
     product_name       |-> product_name,
     unit_price         |-> unit_price,
     quantity           |-> quantity,
     status             |-> status,
     po_required        |-> po_required,
     po_number          |-> po_number,
     invoice_number     |-> invoice_number,
     invoice_date       |-> invoice_date,
     bol                |-> bol,
     additional_product |-> additional_product,
     charges            |-> charges,
     special_charges    |-> special_charges,
     total_taxes        |-> 0,
     exempt_taxes       |-> 0,
     total              |-> 0,
     total_cost         |-> 0,
     margin_per_gallon  |-> 0]

\* main_charges = round(self.unit_price * self.quantity, 2)
main_charges(o) == Round2(o.unit_price * o.quantity, 1)

\* the charge fields left out of the total
ChargeIgnored(x) == 0

\* total_cost at a cost ratio of 80%
TotalCostFourFifths(main) == Round2(main * 80, 100)

\* additional_charges / special_charges as float: the field when it is an int
\* or a float, 0.0 otherwise
ChargeAsFloat(x) == IF IsNumeric(x) THEN ToFloat(x).v ELSE 0

\* total_cost = round(main_charges * 0.85, 2)
TotalCost(main) == Round2(main * 85, 100)

\* margin_per_gallon
MarginPerGallon(main, total_cost, quantity) ==
    IF quantity > 0 THEN Round3(main - total_cost, quantity) ELSE 0

\* calculate_totals left out
DrawExemptTaxesUpToAll(total_taxes, u) == Round2(total_taxes * 13 * u, 100)

\* round(random.uniform(0, total_taxes * 0.3), 2), for the tenth u
DrawExemptTaxes(total_taxes, u) == Round2(total_taxes * 3 * u, 100)

calculate_totals_skipped(o, tax_rate, exempt_draw) == o

\* Order.calculate_totals.  tax_rate is the draw random.uniform(0.05, 0.10) in
\* 1/200; exempt_draw is the draw random.uniform(0, total_taxes * 0.3) as
\* the tenths of the interval it covers.
calculate_totals(o, tax_rate, exempt_draw) ==
    LET main         == main_charges(o)
        additional   == ChargeAsFloat(o.charges)
        special      == ChargeAsFloat(o.special_charges)
        total_taxes  == Round2(main * tax_rate, 200)
        exempt_taxes == DrawExemptTaxes(total_taxes, exempt_draw)
        total_cost   == TotalCost(main)
    IN  [o EXCEPT
            !.total_taxes       = total_taxes,
            !.exempt_taxes      = exempt_taxes,
            !.total             = main + additional + special + total_taxes
                                     - exempt_taxes,
            !.total_cost        = total_cost,
            !.margin_per_gallon = MarginPerGallon(main, total_cost, o.quantity)]

\* date_str / invoice_date_str of Order.to_row
DateStr(x) == IF x.t = "str" THEN x.v ELSE strftime(x.v)

InvoiceDateStr(x) ==
    IF Truthy(x) THEN (IF x.t = "str" THEN x.v ELSE strftime(x.v)) ELSE E

Order_to_row(o) ==
    <<PyStr(o.customer_name), PyStr(o.order_number), PyInt(o.sequence_id),
      PyStr(o.sequence_desc), PyStr(o.po_number), PyStr(o.po_required),
      PyStr(DateStr(o.date)), PyStr(o.status), PyStr(o.invoice_number),
      PyStr(InvoiceDateStr(o.invoice_date)), PyStr(o.bol),
      PyStr(o.product_name), PyFloat(o.unit_price), PyInt(o.quantity),
      PyStr(o.additional_product), o.charges, o.special_charges,
      PyFloat(o.total_taxes), PyFloat(o.total), PyFloat(o.exempt_taxes),
      PyFloat(o.total_cost), PyFloat(o.margin_per_gallon)>>

\* row[k], k counted from 0; IndexError past the end of the row
At(row, k) == IF k < Len(row) THEN Ok(row[k + 1]) ELSE Raise("IndexError")

\* float(c) if c else 0.0, for the outcome c of row[k]
FloatIfAny(c) ==
    IF c.exc # "none" THEN c
    ELSE IF Truthy(c.v) THEN ToFloat(c.v) ELSE Ok(0)

\* float(row[k]) if row[k] else 0.0
FloatOrZero(row, k) == FloatIfAny(At(row, k))

\* int(c) if c else 0, for the outcome c of row[k]
IntIfAny(c) ==
    IF c.exc # "none" THEN c
    ELSE IF Truthy(c.v) THEN ToInt(c.v) ELSE Ok(0)

\* int(row[k]) if row[k] else 0
IntOrZero(row, k) == IntIfAny(At(row, k))

\* The outcome f of float(row[k]) as a cell
FloatCell(f) == IF f.exc # "none" THEN f ELSE Ok(PyFloat(f.v))

\* c if not c or not c.strip() else float(c), for the outcome c of row[k];
\* the value is a tagged cell.  .strip() on a cell that is no str is an
\* AttributeError.
ChargeIfAny(c) ==
    IF c.exc # "none" THEN c
    ELSE IF ~Truthy(c.v) THEN Ok(c.v)
    ELSE IF c.v.t # "str" THEN Raise("AttributeError")
    ELSE IF Strip(c.v.v) = E THEN Ok(c.v)
    ELSE FloatCell(ToFloat(c.v))

\* row[k] if not row[k] or not row[k].strip() else float(row[k])
ChargeCell(row, k) == ChargeIfAny(At(row, k))

\* The statements of the try block of Order.from_row, in order.
FromRowTry(row) ==
    <<FloatOrZero(row, 12), IntOrZero(row, 13), ChargeCell(row, 15),
      ChargeCell(row, 16), FloatOrZero(row, 17), FloatOrZero(row, 18),
      FloatOrZero(row, 19), FloatOrZero(row, 20), FloatOrZero(row, 21)>>

\* The exception the first failing statement of t raises ("none" when none
\* fails).
FirstExc(t) ==
    IF \A k \in 1..Len(t) : t[k].exc = "none" THEN "none"
    ELSE t[CHOOSE k \in 1..Len(t) :
              /\ t[k].exc # "none"
              /\ \A j \in 1..(k - 1) : t[j].exc = "none"].exc

\* The exception the try block ends with ("none" when it runs to its end).
FromRowTryExc(row) == FirstExc(FromRowTry(row))

\* The nine values after the try statement whose statements gave t: those
\* of the try block, or the defaults of the except clause for ValueError and
\* IndexError.
NumbersAfterTry(t) ==
    IF FirstExc(t) = "none"
    THEN [unit_price |-> t[1].v, quantity |-> t[2].v, charges |-> t[3].v,
          special_charges |-> t[4].v, total_taxes |-> t[5].v,
          total |-> t[6].v, exempt_taxes |-> t[7].v, total_cost |-> t[8].v,
          margin_per_gallon |-> t[9].v]
    ELSE [unit_price |-> 0, quantity |-> 0, charges |-> PyStr(E),
          special_charges |-> PyStr(E), total_taxes |-> 0, total |-> 0,
          exempt_taxes |-> 0, total_cost |-> 0, margin_per_gallon |-> 0]

FromRowNumbers(row) == NumbersAfterTry(FromRowTry(row))

\* The exception that leaves from_row when its try block ended with e: one
\* the except clause does not catch, or that of row[2].isdigit().
ExcPastTry(row, e) ==
    IF e \notin {"none", "ValueError", "IndexError"} THEN e
    ELSE IF row[3].t # "str" THEN "AttributeError"
    ELSE "none"

\* The exception Order.from_row raises on this row, "none" when it returns.
Order_from_row_exc(row) ==
    IF Len(row) < 14 THEN "ValueError"
    ELSE ExcPastTry(row, FromRowTryExc(row))

\* cls(...) of Order.from_row with the nine values n.
OrderOfRow(row, n) ==
    [customer_name      |-> row[1].v,
     order_number       |-> row[2].v,
     sequence_id        |-> IF isdigit(row[3].v) THEN DigitsValue(row[3].v)
                                                 ELSE 0,
     sequence_desc      |-> row[4].v,
     po_number          |-> row[5].v,
     po_required        |-> row[6].v,
     date               |-> row[7],
     status             |-> row[8].v,
     invoice_number     |-> row[9].v,
     invoice_date       |-> row[10],
     bol                |-> row[11].v,
     product_name       |-> row[12].v,
     unit_price         |-> n.unit_price,
     quantity           |-> n.quantity,
     additional_product |-> IF Len(row) > 14 THEN row[15].v ELSE "",
     charges            |-> n.charges,
     special_charges    |-> n.special_charges,
     total_taxes        |-> n.total_taxes,
     total              |-> n.total,
     exempt_taxes       |-> n.exempt_taxes,
     total_cost         |-> n.total_cost,
     margin_per_gallon  |-> n.margin_per_gallon]

\* Order.from_row on a row it accepts.
Order_from_row(row) == OrderOfRow(row, FromRowNumbers(row))

-----------------------------------------------------------------------------
(* utils/csv_handler.py *)

\* What csv.writer writes for a cell: a str as it is, a number by str().
CsvText(c) ==
    CASE c.t = "str"   -> c.v
      [] c.t = "int"   -> FormatInt(c.v)
      [] c.t = "float" -> FloatRepr(c.v)
      [] c.t = "None"  -> E

CsvLine(row) == [k \in 1..Len(row) |-> CsvText(row[k])]

\* What csv.reader yields for a line: every cell a str.
CsvRow(line) == [k \in 1..Len(line) |-> PyStr(line[k])]

\* csv.writer given the data rows only when there are any: no header row
\* for an empty list.
CsvLinesNoBareHeader(headers, data) ==
    IF data = <<>> THEN <<>>
    ELSE <<headers>> \o [k \in 1..Len(data) |-> CsvLine(data[k])]

\* The lines write_csv writes when nothing fails: the header, then the data.
CsvLines(headers, data) ==
    <<headers>> \o [k \in 1..Len(data) |-> CsvLine(data[k])]

NoFile == [exists |-> FALSE, lines |-> <<>>]

File(lines) == [exists |-> TRUE, lines |-> lines]

\* file_exists answering True for every path
file_exists_always(f) == TRUE

\* CSVHandler.file_exists
file_exists(f) == f.exists

\* CSVHandler.read_csv with skip_header: the rows after the first line.
read_csv(f) ==
    IF f.lines = <<>> THEN <<>>
    ELSE [k \in 1..(Len(f.lines) - 1) |-> CsvRow(f.lines[k + 1])]

\* CSVHandler.write_csv.  how says what the environment does:
\*   "ok"       every call succeeds, the file holds header and data;
\*   "refused"  makedirs or open raises, the file is as it was;
\*   "cut"      a write raises after open(file_path, 'w') truncated the file
\*              and n lines reached it.
\* The value is the file afterwards and the bool write_csv returns.
write_csv(f, headers, data, how, n) ==
    CASE how = "ok"      -> [file |-> File(CsvLines(headers, data)), ret |-> TRUE]
      [] how = "refused" -> [file |-> f, ret |-> FALSE]
      [] how = "cut"     ->
            [file |-> File(SubSeq(CsvLines(headers, data), 1, n)),
             ret  |-> FALSE]

\* The writes the environment may do to a call of write_csv of these data.
WriteWays(data, ways) ==
    {w \in [how : ways, n : 0..Len(data)] : w.how # "cut" => w.n = 0}

-----------------------------------------------------------------------------
(* generators/data_generator.py *)

\* The positions of a list that a support of selectors picks: k > 0 is the
\* k-th item, k < 0 the k-th from the end (-1 the last).
Pick(n, sel) == {k \in 1..n : k \in sel \/ (k - n - 1) \in sel}

\* _create_sample_products: every row of SAMPLE_PRODUCTS through from_row,
\* each with a fresh price band.  ProductLists(rows) is every list from_row
\* can build of these rows.
RECURSIVE ProductLists(_)
ProductLists(rows) ==
    IF rows = <<>> THEN {<<>>}
    ELSE {Append(ps, Product_from_row(rows[Len(rows)], DrawMinPrice(a),
                                       DrawMaxPrice(b))) :
            ps \in ProductLists(SubSeq(rows, 1, Len(rows) - 1)),
            a \in rnd.min_price, b \in rnd.max_price}

SampleProductRows == [k \in 1..Len(SAMPLE_PRODUCTS) |-> CsvRow(SAMPLE_PRODUCTS[k])]

\* [product.to_row() for product in products]
ProductRows(items) == [k \in 1..Len(items) |-> Product_to_row(items[k])]

\* customer_rows: customer.to_row() for every customer
CustomerRows(items) == [k \in 1..Len(items) |-> Customer_to_row(items[k])]

\* [order.to_row() for order in orders]
OrderRows(items) == [k \in 1..Len(items) |-> Order_to_row(items[k])]

\* [x for x in rows if len(x) >= n]
RECURSIVE LongRows(_, _)
LongRows(rows, n) ==
    IF rows = <<>> THEN <<>>
    ELSE (IF Len(rows[1]) >= n THEN <<rows[1]>> ELSE <<>>)
             \o LongRows(Tail(rows), n)

\* if not products: raise ValueError(...) / if not customers: raise
\* ValueError(...): the exception of the check made before returning.
EmptyCheckSkipped(items) == "none"

EmptyCheck(items) == IF items = <<>> THEN "ValueError" ELSE "none"

\* DataGenerator.generate_products(products_file, force_new): every outcome
\* of one call on the file f.  An outcome is the exception raised ("none"
\* when the call returns), the list returned, the file afterwards and whether
\* write_csv / read_csv were called.
generate_products(f, force) ==
    IF force \/ ~file_exists(f)
    THEN {LET w == write_csv(f, PRODUCT_HEADERS, ProductRows(ps),
                             way.how, way.n)
          IN  [exc      |-> IF ~w.ret THEN "IOError"
                            ELSE EmptyCheck(ps),
               products |-> IF w.ret THEN ps ELSE <<>>,
               file     |-> w.file,
               wrote    |-> TRUE,
               read     |-> FALSE] :
            ps \in ProductLists(SampleProductRows),
            way \in WriteWays(SAMPLE_PRODUCTS, io)}
    ELSE {[exc      |-> EmptyCheck(ps),
           products |-> ps,
           file     |-> f,
           wrote    |-> FALSE,
           read     |-> TRUE] :
            ps \in ProductLists(LongRows(read_csv(f), 2))}

\* fake.company() and the other Faker values of customer number i
FakeCompanies == <<"Acme Fuel Inc", "Bolt Energy LLC", "Crest Oil Co", "Delta Gas Ltd">>

FakeCompany(i) == FakeCompanies[((i - 1) % Len(FakeCompanies)) + 1]

\* f"CUST{i:04d}"
CustomerId(i) == <<"C", "U", "S", "T">> \o FormatIntPadded(i, 4)

\* The six descriptions random.choice picks from for sequence j
SequenceKinds ==
    {"Location", "Facility", "Building", "Warehouse", "Tank", "Station"}

\* f"{kind} {j}", j in 1..5
SequenceDesc(kind, j) ==
    CASE kind = "Location"  -> <<"Location 1", "Location 2", "Location 3", "Location 4", "Location 5">>[j]
      [] kind = "Facility"  -> <<"Facility 1", "Facility 2", "Facility 3", "Facility 4", "Facility 5">>[j]
      [] kind = "Building"  -> <<"Building 1", "Building 2", "Building 3", "Building 4", "Building 5">>[j]
      [] kind = "Warehouse" -> <<"Warehouse 1", "Warehouse 2", "Warehouse 3", "Warehouse 4", "Warehouse 5">>[j]
      [] kind = "Tank"      -> <<"Tank 1", "Tank 2", "Tank 3", "Tank 4", "Tank 5">>[j]
      [] kind = "Station"   -> <<"Station 1", "Station 2", "Station 3", "Station 4", "Station 5">>[j]

\* Every list of n sequences numbered 1..n the inner loop can build.
RECURSIVE SequenceLists(_)
SequenceLists(n) ==
    IF n = 0 THEN {<<>>}
    ELSE {Append(ss, Sequence(n, SequenceDesc(kind, n))) :
            ss \in SequenceLists(n - 1), kind \in rnd.seq_kind}

NewCustomer(i) ==
    [customer_id  |-> CustomerId(i),
     name         |-> FakeCompany(i),
     address      |-> "1 Main St",
     city         |-> "Springfield",
     state        |-> "IL",
     zip_code     |-> "62701",
     contact_name |-> "Pat Doe",
     phone        |-> "555-0100",
     email        |-> "pat@example.com",
     sequences    |-> <<>>]

\* _create_sample_customers(num_customers): every list it can build; each
\* customer gets random.randint(1, 5) sequences.
RECURSIVE create_sample_customers(_)
create_sample_customers(n) ==
    IF n <= 0 THEN {<<>>}
    ELSE {Append(cs, [NewCustomer(n) EXCEPT !.sequences = ss]) :
            cs \in create_sample_customers(n - 1),
            ss \in UNION {SequenceLists(k) : k \in rnd.num_sequences}}

\* The rows of the sequences file: one per sequence of every customer.
RECURSIVE SequenceRows(_)
SequenceRows(cs) ==
    IF cs = <<>> THEN <<>>
    ELSE LET c == cs[1] IN
         [k \in 1..Len(c.sequences) |->
             <<PyStr(c.customer_id), PyInt(c.sequences[k].seq_id),
               PyStr(c.sequences[k].description)>>]
         \o SequenceRows(Tail(cs))

\* customers_dict[customer.customer_id] = customer: a later customer of the
\* same id takes the place of the earlier one.
DictPut(dict, c) ==
    IF \E k \in 1..Len(dict) : dict[k].customer_id = c.customer_id
    THEN [k \in 1..Len(dict) |->
            IF dict[k].customer_id = c.customer_id THEN c ELSE dict[k]]
    ELSE Append(dict, c)

\* The loop over customer_rows: rows of two cells or more go into the dict.
RECURSIVE LoadCustomers(_, _)
LoadCustomers(rows, dict) ==
    IF rows = <<>> THEN dict
    ELSE LoadCustomers(Tail(rows),
            IF Len(rows[1]) >= 2 THEN DictPut(dict, Customer_from_row(rows[1]))
                                 ELSE dict)

\* The loop over sequence_rows: int(row[1]) raises ValueError on a
\* SequenceID that is no integer.
RECURSIVE LoadSequences(_, _)
LoadSequences(rows, dict) ==
    IF rows = <<>> THEN Ok(dict)
    ELSE LET row == rows[1] IN
         IF Len(row) >= 3 /\ \E k \in 1..Len(dict) : dict[k].customer_id = row[1].v
         THEN IF ToInt(row[2]).exc # "none" THEN Raise(ToInt(row[2]).exc)
              ELSE LoadSequences(Tail(rows),
                     [k \in 1..Len(dict) |->
                        IF dict[k].customer_id = row[1].v
                        THEN add_sequence(dict[k], ToInt(row[2]).v, row[3].v)
                        ELSE dict[k]])
         ELSE LoadSequences(Tail(rows), dict)

\* list(customers_dict.values()), nobody left out
WithSequencesKeepAll(cs) == cs

\* [c for c in customers_dict.values() if c.has_sequences()]
RECURSIVE WithSequences(_)
WithSequences(cs) ==
    IF cs = <<>> THEN <<>>
    ELSE (IF has_sequences(cs[1]) THEN <<cs[1]>> ELSE <<>>)
             \o WithSequences(Tail(cs))

\* DataGenerator.generate_customers(customers_file, sequences_file,
\* num_customers, force_new): every outcome of one call on the files fc, fq.
generate_customers(fc, fq, num_customers, force) ==
    IF force \/ ~file_exists(fc) \/ ~file_exists(fq)
    THEN {LET customer_rows == CustomerRows(cs)
              wc == write_csv(fc, CUSTOMER_HEADERS, customer_rows,
                              wayc.how, wayc.n)
              wq == write_csv(fq, SEQUENCE_HEADERS, SequenceRows(cs),
                              wayq.how, wayq.n)
          IN  [exc       |-> IF ~wc.ret \/ ~wq.ret THEN "IOError"
                             ELSE EmptyCheck(cs),
               customers |-> IF wc.ret /\ wq.ret THEN cs ELSE <<>>,
               cfile     |-> wc.file,
               qfile     |-> wq.file,
               wrote     |-> TRUE,
               read      |-> FALSE] :
            cs \in create_sample_customers(num_customers),
            wayc \in {w \in [how : io, n : 0..num_customers] :
                        w.how # "cut" => w.n = 0},
            wayq \in {w \in [how : io, n : 0..1] : w.how # "cut" => w.n = 0}}
    ELSE LET dict == LoadCustomers(read_csv(fc), <<>>)
             seqd == LoadSequences(read_csv(fq), dict)
             cs   == IF seqd.exc = "none" THEN WithSequences(seqd.v) ELSE <<>>
         IN  {[exc       |-> IF seqd.exc # "none" THEN seqd.exc
                             ELSE EmptyCheck(cs),
               customers |-> cs,
               cfile     |-> fc,
               qfile     |-> fq,
               wrote     |-> FALSE,
               read      |-> TRUE]}


\* month_year_str = f"{year}{month:02d}"
month_year_str(y, m) == FormatInt(y) \o FormatIntPadded(m, 2)

\* OrderNumber as a loop that numbers from 0 would format it
OrderNumberFromZero(y, m, i) ==
    <<"O", "R", "D", "-">> \o month_year_str(y, m) \o <<"-">>
        \o FormatIntPadded(i, 4)

\* f"ORD-{month_year_str}-{i+1:04d}", f"PO-{month_year_str}-{i+1:03d}",
\* f"INV-{month_year_str}-{i+1:04d}", f"BOL-{month_year_str}-{i+1:04d}"
OrderNumber(y, m, i) ==
    <<"O", "R", "D", "-">> \o month_year_str(y, m) \o <<"-">>
        \o FormatIntPadded(i + 1, 4)

PoNumberFromZero(y, m, i) ==
    <<"P", "O", "-">> \o month_year_str(y, m) \o <<"-">>
        \o FormatIntPadded(i, 3)

PoNumber(y, m, i) ==
    <<"P", "O", "-">> \o month_year_str(y, m) \o <<"-">>
        \o FormatIntPadded(i + 1, 3)

InvoiceNumber(y, m, i) ==
    <<"I", "N", "V", "-">> \o month_year_str(y, m) \o <<"-">>
        \o FormatIntPadded(i + 1, 4)

BolNumber(y, m, i) ==
    <<"B", "O", "L", "-">> \o month_year_str(y, m) \o <<"-">>
        \o FormatIntPadded(i + 1, 4)

\* generate_date_in_month raises ValueError: calendar.monthrange on a month
\* outside 1..12, datetime.date on a year outside MINYEAR..MAXYEAR.
DateRaises(y, m) == ~MonthIsLegal(m) \/ y \notin MINYEAR..MAXYEAR

\* The days random.randint(1, num_days) is taken from.
DayChoices(y, m) == Pick(DaysInMonth(y, m), rnd.day)

\* invoice_date without the fallback to the order date
InvoiceDateNextDay(date_obj, m) == PlusOneDay(date_obj)

\* invoice_date of a Completed order: the day after date_obj, or date_obj
\* itself when the day after is in another month than the argument month.
InvoiceDate(date_obj, m) ==
    IF PlusOneDay(date_obj).month # m THEN date_obj ELSE PlusOneDay(date_obj)

\* random.randint(20, 350) * 10
Quantity(r) == r * 10

DrawSpecialChargeUpToSixty(u) == UniformCents(10000, 60000, u)

\* round(random.uniform(10, 50), 2)
DrawSpecialCharge(u) == UniformCents(10000, 50000, u)

PoFilledAlways(po_req) == TRUE

\* if po_req == "Yes": the PO number is filled in
PoFilled(po_req) == po_req = "Yes"

HasInvoiceUnlessPending(status) == status # "Pending"

\* if status == "Completed": the invoice number and date are filled in
HasInvoice(status) == status = "Completed"

\* The body of the loop of generate_orders up to Order(...), for index i, the
\* date dates[i] and the draws: customer and sequence chosen, po_req, status,
\* product, the tenth u_price of the price band, the randint r_qty, whether
\* random() < 0.10 (extra) with the charge name chosen, whether
\* random() < 0.30 (special) with the tenth u_special of [10, 50].
NewOrder(y, m, i, date_obj, customer, sequence, po_req, status, product, u_price, r_qty, extra, charge_name, special, u_special) ==
    Order(customer.name,
          OrderNumber(y, m, i),
          sequence.seq_id,
          sequence.description,
          IF PoFilled(po_req) THEN PoNumber(y, m, i) ELSE E,
          po_req,
          PyDate(date_obj),
          status,
          IF HasInvoice(status) THEN InvoiceNumber(y, m, i) ELSE E,
          IF HasInvoice(status) THEN PyDate(InvoiceDate(date_obj, m))
                                ELSE PyNone,
          BolNumber(y, m, i),
          product.name,
          get_random_price(product, u_price),
          Quantity(r_qty),
          IF extra THEN charge_name ELSE "",
          IF extra THEN PyFloat(STANDARD_CHARGES[charge_name]) ELSE PyStr(E),
          IF extra /\ special THEN PyFloat(DrawSpecialCharge(u_special))
                              ELSE PyStr(E))

\* tax_rate = random.uniform(0.05, 0.10) in 1/200, for the tenth u
DrawTaxRate(u) == 10 + u

-----------------------------------------------------------------------------
(* The state machine: one run of ReportGenerator.generate_monthly_orders or  *)
(* ReportGenerator.generate_single_file (generators/report_generator.py)     *)

FileNames == {"products", "customers", "sequences", "orders"}

\* The return value of the entry point; exc is the exception its except
\* clause caught ("none" when there was none) and at the step that raised it.
Running      == [done |-> FALSE, ret |-> FALSE, exc |-> "none", at |-> "none"]
Returned(b)  == [done |-> TRUE,  ret |-> b,     exc |-> "none", at |-> "none"]
\* except Exception as e: ... return False
Caught(e, a) == [done |-> TRUE,  ret |-> FALSE, exc |-> e,      at |-> a]

Event(ev, file, i) == [ev |-> ev, file |-> file, i |-> i]

\* The events of one catalog call: write_csv or read_csv on its files.
CatalogEvents(out, files) ==
    [k \in 1..Len(files) |->
        Event(IF out.wrote THEN "write_csv" ELSE "read_csv", files[k], 0)]

NoProbe == [fn |-> "none"]

\* products = self.data_generator.generate_products(PRODUCTS_FILE, force_new)
GenerateProducts ==
    /\ pc = "products"
    /\ \E out \in generate_products(fs["products"], force_new) :
          /\ fs' = [fs EXCEPT !["products"] = out.file]
          /\ log' = log \o CatalogEvents(out, <<"products">>)
          /\ IF out.exc = "none"
             THEN /\ products' = out.products
                  /\ pc' = "customers"
                  /\ result' = result
             ELSE /\ products' = products
                  /\ pc' = "done"
                  /\ result' = Caught(out.exc, pc)
    /\ UNCHANGED <<entry, year, month, num_orders, force_new, io, customers,
                   dates, orders, cur, order_rows, rnd, probe>>

\* customers = self.data_generator.generate_customers(CUSTOMERS_FILE,
\*     SEQUENCES_FILE, force_new=force_new_base_data)
GenerateCustomers ==
    /\ pc = "customers"
    /\ \E out \in generate_customers(fs["customers"], fs["sequences"],
                                     DEFAULT_NUM_CUSTOMERS, force_new) :
          /\ fs' = [fs EXCEPT !["customers"] = out.cfile,
                              !["sequences"] = out.qfile]
          /\ log' = log \o CatalogEvents(out, <<"customers", "sequences">>)
          /\ IF out.exc = "none"
             THEN /\ customers' = out.customers
                  /\ pc' = "dates"
                  /\ result' = result
             ELSE /\ customers' = customers
                  /\ pc' = "done"
                  /\ result' = Caught(out.exc, pc)
    /\ UNCHANGED <<entry, year, month, num_orders, force_new, io, products,
                   dates, orders, cur, order_rows, rnd, probe>>

\* generate_orders, lines 271-279: num_orders dates drawn by
\* generate_date_in_month, then dates.sort().
DrawDates ==
    /\ pc = "dates"
    /\ IF num_orders = 0
       THEN /\ dates' = <<>>
            /\ pc' = "loop"
            /\ result' = result
       ELSE IF DateRaises(year, month)
       THEN /\ dates' = dates
            /\ pc' = "done"
            /\ result' = Caught("ValueError", pc)
       ELSE \E days \in [1..num_orders -> DayChoices(year, month)] :
               /\ dates' = SortDates([k \in 1..num_orders |->
                                         Date(year, month, days[k])])
               /\ pc' = "loop"
               /\ result' = result
    /\ UNCHANGED <<entry, year, month, num_orders, force_new, fs, io,
                   products, customers, orders, cur, order_rows, log, rnd,
                   probe>>

\* The outcomes of the draws for the additional charge: none when
\* random() >= 0.10; else a charge name, and a special charge of the tenth u
\* of [10, 50] when the second random() < 0.30.
ExtraChoices ==
    {x \in [extra : rnd.extra, name : rnd.charge_name \cup {""},
            special : rnd.special \cup {FALSE}, u : rnd.special_u \cup {0}] :
        /\ x.extra => x.name \in rnd.charge_name /\ x.special \in rnd.special
        /\ ~x.extra => x.name = "" /\ ~x.special
        /\ x.special => x.u \in rnd.special_u
        /\ ~x.special => x.u = 0}

\* generate_orders, lines 290-371: iteration i of the loop up to Order(...).
\* random.choice of an empty list raises IndexError; the day after
\* 9999-12-31 raises OverflowError.
BuildOrder ==
    /\ pc = "loop"
    /\ cur = <<>>
    /\ Len(orders) < num_orders
    /\ LET i    == Len(orders)
           stop(e) == /\ pc' = "done"
                      /\ result' = Caught(e, pc)
                      /\ UNCHANGED <<cur, log>>
       IN
       IF customers = <<>> THEN stop("IndexError")
       ELSE \E c \in Pick(Len(customers), rnd.customer) :
          IF customers[c].sequences = <<>> THEN stop("IndexError")
          ELSE \E q \in Pick(Len(customers[c].sequences), rnd.sequence),
                  po_req \in rnd.po, status \in rnd.status :
             IF status = "Completed" /\ PlusOneDayOverflows(dates[i + 1])
             THEN stop("OverflowError")
             ELSE IF products = <<>> THEN stop("IndexError")
             ELSE \E p \in Pick(Len(products), rnd.product),
                     u_price \in rnd.price, r_qty \in rnd.quantity,
                     x \in ExtraChoices :
                /\ cur' = <<NewOrder(year, month, i, dates[i + 1],
                                     customers[c], customers[c].sequences[q],
                                     po_req, status, products[p], u_price,
                                     r_qty, x.extra, x.name, x.special, x.u)>>
                /\ log' = Append(log, Event("Order", "", i + 1))
                /\ pc' = pc
                /\ result' = result
    /\ UNCHANGED <<entry, year, month, num_orders, force_new, fs, io,
                   products, customers, dates, orders, order_rows, rnd, probe>>

\* generate_orders, lines 373-376: order.calculate_totals() and
\* orders.append(order).
DeriveOrder ==
    /\ pc = "loop"
    /\ cur # <<>>
    /\ \E t \in rnd.tax, x \in rnd.exempt :
          orders' = Append(orders, calculate_totals(cur[1], DrawTaxRate(t), x))
    /\ cur' = <<>>
    /\ log' = Append(log, Event("calculate_totals", "", Len(orders) + 1))
    /\ UNCHANGED <<pc, entry, year, month, num_orders, force_new, fs, io,
                   products, customers, dates, order_rows, result, rnd, probe>>

\* return orders, then order_rows = [order.to_row() for order in orders]
SerializeOrders ==
    /\ pc = "loop"
    /\ cur = <<>>
    /\ Len(orders) >= num_orders
    /\ order_rows' = OrderRows(orders)
    /\ log' = log \o [k \in 1..Len(orders) |-> Event("to_row", "", k)]
    /\ pc' = "write"
    /\ UNCHANGED <<entry, year, month, num_orders, force_new, fs, io,
                   products, customers, dates, orders, cur, result, rnd, probe>>

\* success = self.csv_handler.write_csv(output_file, ORDER_HEADERS,
\* order_rows) and the return of the entry point.
WriteOrders ==
    /\ pc = "write"
    /\ \E way \in WriteWays(order_rows, io) :
          LET w == write_csv(fs["orders"], ORDER_HEADERS, order_rows,
                             way.how, way.n)
          IN  /\ fs' = [fs EXCEPT !["orders"] = w.file]
              /\ result' = Returned(w.ret)
    /\ log' = Append(log, Event("write_csv", "orders", 0))
    /\ pc' = "done"
    /\ UNCHANGED <<entry, year, month, num_orders, force_new, io, products,
                   customers, dates, orders, cur, order_rows, rnd, probe>>

-----------------------------------------------------------------------------
(* Supports of the random draws and initial states *)

\* A uniform draw is the tenth 0..10 of its interval, a choice from a list a
\* set of position selectors (Pick), randint a set of its values.
ListRnd ==
    [min_price     |-> {0},
     max_price     |-> {10},
     num_sequences |-> {2},
     seq_kind      |-> {"Location"},
     day           |-> {1, -2, -1},
     customer      |-> {1},
     sequence      |-> {-1},
     po            |-> {"Yes"},
     status        |-> {"Completed", "Pending"},
     product       |-> {-1},
     price         |-> {5},
     quantity      |-> {20},
     extra         |-> {FALSE},
     charge_name   |-> {"Pump Fee"},
     special       |-> {FALSE},
     special_u     |-> {0},
     tax           |-> {5},
     exempt        |-> {5}]

\* The (year, month) arguments explored: leap and common Februaries, the
\* century rules, a 30-day month, December, a three-digit year, the last
\* year of datetime, and arguments generate_date_in_month rejects.
YearMonths ==
    {<<2023, 2>>, <<2024, 2>>, <<1900, 2>>, <<2000, 2>>, <<2024, 4>>,
     <<2024, 12>>, <<999, 1>>, <<9999, 12>>, <<2024, 13>>, <<10000, 1>>}

\* A catalog a former run left on disk.
OldProductsFile ==
    File(CsvLines(PRODUCT_HEADERS, SampleProductRows))

OldCustomers ==
    <<[NewCustomer(1) EXCEPT !.sequences = <<Sequence(1, "Tank 1")>>],
      [NewCustomer(2) EXCEPT !.sequences =
          <<Sequence(1, "Station 1"), Sequence(2, "Building 2")>>]>>

OldCustomersFile ==
    File(CsvLines(CUSTOMER_HEADERS, CustomerRows(OldCustomers)))

OldSequencesFile ==
    File(CsvLines(SEQUENCE_HEADERS, SequenceRows(OldCustomers)))

EmptyDisk == [f \in FileNames |-> NoFile]

OldDisk ==
    [f \in FileNames |->
        CASE f = "products"  -> OldProductsFile
          [] f = "customers" -> OldCustomersFile
          [] f = "sequences" -> OldSequencesFile
          [] OTHER           -> NoFile]

\* Catalogs as an edit or an interrupted run may have left them: the second
\* customer without any row in the sequences file; no customer with a row
\* there; nothing but the header line in each file.
SparseDisk ==
    [OldDisk EXCEPT !["sequences"] =
        File(CsvLines(SEQUENCE_HEADERS, SequenceRows(SubSeq(OldCustomers, 1, 1))))]

NoSequenceRowsDisk ==
    [OldDisk EXCEPT !["sequences"] = File(<<SEQUENCE_HEADERS>>)]

HeaderOnlyDisk ==
    [f \in FileNames |->
        CASE f = "products"  -> File(<<PRODUCT_HEADERS>>)
          [] f = "customers" -> File(<<CUSTOMER_HEADERS>>)
          [] f = "sequences" -> File(<<SEQUENCE_HEADERS>>)
          [] OTHER           -> NoFile]

\* The loop indices i at which the order number is formatted directly.
IndexSamples == {0, 8, 9, 98, 99, 998, 999, 9998, 9999, 10000, 99998, 99999}

\* generate_monthly_orders(year, month, output_file, num_orders,
\* force_new_base_data) or generate_single_file(output_file, num_orders,
\* force_new_base_data) with (year, month) the current date, about to start.
InitRun(plans, yms, counts, disks, ways) ==
    /\ pc = "products"
    /\ entry \in {"monthly", "single"}
    /\ \E ym \in yms :
          /\ year = ym[1]
          /\ month = ym[2]
          \* datetime.datetime.now() is a date
          /\ entry = "single" => ~DateRaises(year, month)
    /\ num_orders \in counts
    /\ force_new \in BOOLEAN
    /\ fs \in disks
    /\ io = ways
    /\ products = <<>>
    /\ customers = <<>>
    /\ dates = <<>>
    /\ orders = <<>>
    /\ cur = <<>>
    /\ order_rows = <<>>
    /\ result = Running
    /\ log = <<>>
    /\ rnd \in plans
    /\ probe = NoProbe

\* The values of the variables a direct call of one function leaves alone.
Idle ==
    /\ entry = "none"
    /\ force_new = FALSE
    /\ fs = EmptyDisk
    /\ io = {"ok"}
    /\ products = <<>>
    /\ customers = <<>>
    /\ dates = <<>>
    /\ orders = <<>>
    /\ cur = <<>>
    /\ order_rows = <<>>
    /\ result = Running
    /\ log = <<>>

\* Lines 288 and 296 of generate_orders about to run for the indices i < j of
\* a call with more than j orders.
InitOrderNumber ==
    /\ pc = "order_number"
    /\ \E ym \in {x \in YearMonths : ~DateRaises(x[1], x[2])} :
          year = ym[1] /\ month = ym[2]
    /\ \E i \in IndexSamples, j \in IndexSamples :
          /\ i < j
          /\ num_orders = j + 1
          /\ probe = [fn |-> "order_number", i |-> i, j |-> j, out |-> <<>>]
    /\ rnd = ListRnd
    /\ Idle

\* order_num = f"ORD-{month_year_str}-{i+1:04d}" for both indices
FormatOrderNumber ==
    /\ pc = "order_number"
    /\ probe' = [probe EXCEPT !.out = <<OrderNumber(year, month, probe.i),
                                        OrderNumber(year, month, probe.j)>>]
    /\ pc' = "returned"
    /\ UNCHANGED <<entry, year, month, num_orders, force_new, fs, io,
                   products, customers, dates, orders, cur, order_rows,
                   result, log, rnd>>

\* The draws of calculate_totals at the ends and inside of their intervals.
TotalsRnd ==
    [ListRnd EXCEPT !.tax = {0, 3, 10}, !.exempt = {0, 5, 10}]

\* unit_price in mills, quantity, and the values of charges and
\* special_charges an Order may be constructed with: "", " ", "85", 85.0, 5.
TotalsPrices == {0, 5, 2505, 3570, 4500}
TotalsQuantities == {-10, 0, 1, 3, 7, 200, 3500}
TotalsCharges ==
    {PyStr(E), PyStr(<<" ">>), PyStr(<<"8", "5">>), PyFloat(85000), PyInt(5)}

\* An Order constructed with these fields, calculate_totals about to run.
InitTotals ==
    /\ pc = "calculate_totals"
    /\ year = 2024 /\ month = 4 /\ num_orders = 1
    /\ \E up \in TotalsPrices, q \in TotalsQuantities,
          c \in TotalsCharges, sc \in TotalsCharges :
          cur = <<Order("Acme Fuel Inc", OrderNumber(2024, 4, 0), 1, "Tank 1",
                        E, "No", PyDate(Date(2024, 4, 1)), "Pending", E,
                        PyNone, BolNumber(2024, 4, 0), "Diesel", up, q,
                        "", c, sc)>>
    /\ entry = "none"
    /\ force_new = FALSE
    /\ fs = EmptyDisk
    /\ io = {"ok"}
    /\ products = <<>>
    /\ customers = <<>>
    /\ dates = <<>>
    /\ orders = <<>>
    /\ order_rows = <<>>
    /\ result = Running
    /\ log = <<>>
    /\ rnd = TotalsRnd
    /\ probe = [fn |-> "calculate_totals"]

\* order.calculate_totals() on the order cur[1]; orders[1] is the order after
\* the call, cur[1] stays the order before it.
ApplyCalculateTotals ==
    /\ pc = "calculate_totals"
    /\ \E t \in rnd.tax, x \in rnd.exempt :
          orders' = <<calculate_totals(cur[1], DrawTaxRate(t), x)>>
    /\ pc' = "returned"
    /\ UNCHANGED <<entry, year, month, num_orders, force_new, fs, io,
                   products, customers, dates, cur, order_rows, result, log,
                   rnd, probe>>

NextTotals == ApplyCalculateTotals

SpecTotals == InitTotals /\ [][NextTotals]_vars

\* The number of direct calls of generate_products / generate_customers on
\* the same paths.
MaxCalls == 2

\* Price bands at both ends, so that two catalogs of the same rows differ.
CatalogRnd == [ListRnd EXCEPT !.min_price = {0, 10}]

\* No call of a catalog function made yet.
NoCall == [fn |-> "none"]

\* The catalog files as a former run may have left them, no call made yet.
InitCatalog ==
    /\ pc = "catalog"
    /\ year = 2024 /\ month = 4 /\ num_orders = 0
    /\ fs \in {EmptyDisk, OldDisk,
               [OldDisk EXCEPT !["sequences"] = NoFile],
               SparseDisk, NoSequenceRowsDisk, HeaderOnlyDisk}
    /\ io = {"ok", "refused", "cut"}
    /\ rnd = CatalogRnd
    /\ probe = [fn |-> "catalog", calls |-> 0, num |-> 0, last |-> NoCall,
                prev |-> NoCall]
    /\ entry = "none"
    /\ force_new = FALSE
    /\ products = <<>>
    /\ customers = <<>>
    /\ dates = <<>>
    /\ orders = <<>>
    /\ cur = <<>>
    /\ order_rows = <<>>
    /\ result = Running
    /\ log = <<>>

\* What is remembered of a call: its arguments, whether it called write_csv,
\* the exception it raised, the catalog it returned with its rows, and the
\* disk before and after.
Call(fn, force, out, items, rows, after) ==
    [fn |-> fn, force |-> force, wrote |-> out.wrote, exc |-> out.exc,
     items |-> items, rows |-> rows, before |-> fs, after |-> after]

\* data_generator.generate_products(PRODUCTS_FILE, force_new=force)
CallGenerateProducts ==
    /\ pc = "catalog"
    /\ probe.calls < MaxCalls
    /\ \E force \in BOOLEAN :
        \E out \in generate_products(fs["products"], force) :
          /\ force_new' = force
          /\ fs' = [fs EXCEPT !["products"] = out.file]
          /\ products' = IF out.exc = "none" THEN out.products ELSE products
          /\ probe' = [probe EXCEPT
                !.calls = @ + 1,
                !.prev = probe.last,
                !.last = Call("generate_products", force, out, out.products,
                              ProductRows(out.products), fs')]
    /\ UNCHANGED <<pc, entry, year, month, num_orders, io, customers, dates,
                   orders, cur, order_rows, result, log, rnd>>

\* data_generator.generate_customers(CUSTOMERS_FILE, SEQUENCES_FILE,
\* num_customers, force_new=force), num_customers the default or 0
CallGenerateCustomers ==
    /\ pc = "catalog"
    /\ probe.calls < MaxCalls
    /\ \E force \in BOOLEAN, num_customers \in {0, DEFAULT_NUM_CUSTOMERS} :
        \E out \in generate_customers(fs["customers"], fs["sequences"],
                                      num_customers, force) :
          /\ force_new' = force
          /\ fs' = [fs EXCEPT !["customers"] = out.cfile,
                              !["sequences"] = out.qfile]
          /\ customers' = IF out.exc = "none" THEN out.customers
                                              ELSE customers
          /\ probe' = [probe EXCEPT
                !.calls = @ + 1,
                !.num = num_customers,
                !.prev = probe.last,
                !.last = Call("generate_customers", force, out,
                              out.customers,
                              CustomerRows(out.customers), fs')]
    /\ UNCHANGED <<pc, entry, year, month, num_orders, io, products, dates,
                   orders, cur, order_rows, result, log, rnd>>

NextCatalog ==
    \/ CallGenerateProducts
    \/ CallGenerateCustomers

SpecCatalog == InitCatalog /\ [][NextCatalog]_vars

Init ==
    \/ InitRun({ListRnd}, YearMonths, 0..MaxOrders, {EmptyDisk, OldDisk},
               {"ok", "refused", "cut"})
    \/ InitOrderNumber

Run ==
    \/ GenerateProducts
    \/ GenerateCustomers
    \/ DrawDates
    \/ BuildOrder
    \/ DeriveOrder
    \/ SerializeOrders
    \/ WriteOrders

\* Supports for one order: the choices of customer, sequence, product,
\* purchase order and status; the prices, quantities and taxes; the charges.
IdsRnd ==
    [ListRnd EXCEPT !.num_sequences = {1, 2}, !.seq_kind = {"Tank"},
                    !.customer = {1, -1}, !.sequence = {1, -1},
                    !.po = {"Yes", "No"}, !.product = {1, -1},
                    !.status = {"Completed", "In Progress", "Pending"}]

MoneyRnd ==
    [ListRnd EXCEPT !.max_price = {0, 10}, !.price = {0, 3, 5},
                    !.quantity = {20, 35, 350}, !.tax = {0, 5},
                    !.exempt = {3, 10}, !.status = {"Completed"}]

ChargeRnd ==
    [ListRnd EXCEPT !.extra = {TRUE, FALSE},
                    !.charge_name = {"Labor Charge", "Rush Delivery"},
                    !.special = {TRUE, FALSE}, !.special_u = {0, 3, 10},
                    !.status = {"Completed", "Pending"}]

\* A sequences file edited by hand: a sequence id below zero.
EditedDisk ==
    [OldDisk EXCEPT !["sequences"] =
        File(CsvLines(SEQUENCE_HEADERS,
                      SequenceRows(<<OldCustomers[1],
                                     [OldCustomers[2] EXCEPT !.sequences =
                                         <<Sequence(-3, "Dock 3")>>]>>)))]

\* Supports for the price bands: both ends of each band and of the price.
BandRnd ==
    [ListRnd EXCEPT !.min_price = {0, 10}, !.max_price = {0, 10},
                    !.price = {0, 3, 10}, !.product = {1, -1},
                    !.status = {"Completed"}]

\* A run of an entry point for one order, every write succeeding.
InitOrder ==
    InitRun({IdsRnd, MoneyRnd, ChargeRnd, BandRnd},
            {<<2024, 12>>, <<999, 1>>}, {1},
            {EmptyDisk, OldDisk, EditedDisk}, {"ok"})

\* After a run that returned True: every customer and every order through
\* to_row and from_row.  direct is the exception of Order.from_row(o.to_row())
\* ("none" when it returns); parsed the orders Order.from_row builds of the
\* rows read_csv reads from the orders file; once and twice the customers
\* after one and two passes through Customer.from_row(c.to_row()).
RoundTrip ==
    /\ pc = "done"
    /\ result.ret
    /\ probe = NoProbe
    /\ LET rows == read_csv(fs["orders"])
           once == [k \in 1..Len(customers) |->
                      Customer_from_row(Customer_to_row(customers[k]))]
       IN  probe' =
             [fn     |-> "round_trip",
              direct |-> [k \in 1..Len(orders) |->
                            Order_from_row_exc(Order_to_row(orders[k]))],
              raised |-> [k \in 1..Len(rows) |-> Order_from_row_exc(rows[k])],
              parsed |-> [k \in 1..Len(rows) |-> Order_from_row(rows[k])],
              once   |-> once,
              twice  |-> [k \in 1..Len(once) |->
                            Customer_from_row(Customer_to_row(once[k]))]]
    /\ pc' = "checked"
    /\ UNCHANGED <<entry, year, month, num_orders, force_new, fs, io,
                   products, customers, dates, orders, cur, order_rows,
                   result, log, rnd>>

NextOrder ==
    \/ Run
    \/ RoundTrip

SpecOrder == InitOrder /\ [][NextOrder]_vars

\* Supports for a batch of orders: each order with or without a purchase
\* order, in each of the three statuses, on the first or the last day.
BatchRnd ==
    [ListRnd EXCEPT !.day = {1, -1}, !.po = {"Yes", "No"},
                    !.status = {"Completed", "In Progress", "Pending"}]

\* A run of an entry point for MaxOrders orders over a catalog on disk.
InitBatch ==
    InitRun({BatchRnd}, {<<2024, 4>>, <<999, 1>>, <<9999, 12>>},
            {MaxOrders}, {OldDisk}, {"ok"})

SpecBatch == InitBatch /\ [][Run]_vars

-----------------------------------------------------------------------------
(* ReportGenerator.generate_multi_year_reports and generate_current_month,   *)
(* and the command generate_monthly.py                                       *)

DEFAULT_ORDERS_PER_MONTH == 50

\* os.path.join(ORDER_DIR, f"orders_{year}_{month:02d}.csv"), the file name
OrdersFileName(y, m) ==
    <<"o", "r", "d", "e", "r", "s", "_">> \o FormatInt(y) \o <<"_">>
        \o FormatIntPadded(m, 2) \o <<".", "c", "s", "v">>

\* The checks of lines 135-141: start_year > end_year, or the same year
\* with end_month < 1.
RangeRejected(start_year, end_year, end_month) ==
    \/ start_year > end_year
    \/ start_year = end_year /\ end_month < 1

\* total_months of lines 144-149, summed from the year y on
RECURSIVE TotalMonths(_, _, _)
TotalMonths(y, end_year, end_month) ==
    IF y > end_year THEN 0
    ELSE (IF y = end_year THEN end_month ELSE 12)
            + TotalMonths(y + 1, end_year, end_month)

\* max_month = 12 for every year
MaxMonthTwelve(y, end_year, end_month) == 12

\* max_month of lines 163-165
MaxMonth(y, end_year, end_month) == IF y = end_year THEN end_month ELSE 12

\* for year in range(y, end_year + 1): for month in range(1, max_month + 1):
\* the (year, month) of the iterations, in the order they are run.
RECURSIVE LoopMonths(_, _, _)
LoopMonths(y, end_year, end_month) ==
    IF y > end_year THEN <<>>
    ELSE LET max_month == MaxMonth(y, end_year, end_month)
         IN  (IF max_month < 1 THEN <<>>
              ELSE [k \in 1..max_month |-> <<y, k>>])
                 \o LoopMonths(y + 1, end_year, end_month)

\* force_new_base_data = False after every report
ForceAfterReportKept(force, success) == force

\* force_new_base_data after a report, line 183
ForceAfterReport(force, success) == FALSE

\* return True whenever a month was processed
MultiReturnProcessed(months_succeeded, months_processed) == months_processed > 0

\* return months_succeeded > 0, line 195
MultiReturn(months_succeeded, months_processed) == months_succeeded > 0

\* The draws of a run of many months: one choice each, the last day of the
\* month and a completed order, so that a run is decided by its writes.
MultiRnd == [ListRnd EXCEPT !.day = {-1}, !.status = {"Completed"}]

\* (start_year, end_year, end_month) with what write_csv may do during the
\* run.  Short ranges meet every outcome of every write; long ranges,
\* ranges that end in month 13 or below month 1, and the last year of
\* datetime run with writes that all succeed or are all refused.
MultiRuns ==
    ({<<2024, 2024, 1>>, <<2024, 2024, 2>>, <<2025, 2024, 5>>,
      <<2024, 2024, 0>>}
        \X {{"ok", "refused", "cut"}})
    \cup
    ({<<2023, 2024, 2>>, <<2024, 2024, 12>>, <<2024, 2024, 13>>,
      <<2023, 2024, 0>>, <<2023, 2024, -1>>, <<2023, 2024, 13>>,
      <<2024, 2024, -1>>, <<2024, 2023, 12>>, <<9999, 9999, 12>>,
      <<2022, 2024, 12>>}
        \X {{"ok"}, {"refused"}})

\* orders_per_month
OrdersPerMonth == {0, 1}

\* The variables of one monthly report before it starts.
NoReport ==
    /\ products = <<>>
    /\ customers = <<>>
    /\ dates = <<>>
    /\ orders = <<>>
    /\ cur = <<>>
    /\ order_rows = <<>>
    /\ result = Running
    /\ log = <<>>

\* generate_multi_year_reports(start_year, end_year, end_month,
\* orders_per_month) about to run.
InitMultiYear ==
    /\ pc = "multi_year"
    /\ entry = "multi_year"
    /\ \E run \in MultiRuns, n \in OrdersPerMonth :
          /\ io = run[2]
          /\ year = run[1][1] /\ month = 1
          /\ num_orders = n
          /\ probe = [fn                  |-> "multi_year",
                      start_year          |-> run[1][1],
                      end_year            |-> run[1][2],
                      end_month           |-> run[1][3],
                      orders_per_month    |-> n,
                      total_months        |-> 0,
                      months_processed    |-> 0,
                      months_succeeded    |-> 0,
                      force_new_base_data |-> TRUE,
                      disk                |-> EmptyDisk,
                      attempts            |-> <<>>,
                      ret                 |-> FALSE]
    /\ force_new = FALSE
    /\ fs \in {EmptyDisk, OldDisk}
    /\ rnd = MultiRnd
    /\ NoReport

\* generate_monthly.py with --orders and --force-new parsed, on the current
\* date, generator.generate_current_month(output_file) about to be called.
InitMainMonthly ==
    /\ pc = "main"
    /\ entry = "generate_monthly"
    /\ year = 2024 /\ month = 4
    /\ num_orders = 0
    /\ \E n \in {0, 1, DEFAULT_ORDERS_PER_MONTH}, b \in BOOLEAN :
          probe = [fn |-> "generate_monthly", orders |-> n, force_new |-> b,
                   disk |-> EmptyDisk, exit |-> -1]
    /\ force_new = FALSE
    /\ fs \in {EmptyDisk, OldDisk}
    /\ io = {"ok", "refused", "cut"}
    /\ rnd = MultiRnd
    /\ NoReport

\* Lines 134-155: the range is checked, total_months is counted.
MultiValidate ==
    /\ pc = "multi_year"
    /\ IF RangeRejected(probe.start_year, probe.end_year, probe.end_month)
       THEN /\ pc' = "multi_done"
            /\ probe' = [probe EXCEPT !.ret = FALSE]
       ELSE /\ pc' = "multi_loop"
            /\ probe' = [probe EXCEPT !.total_months =
                            TotalMonths(probe.start_year, probe.end_year,
                                        probe.end_month)]
    /\ UNCHANGED <<entry, year, month, num_orders, force_new, fs, io,
                   products, customers, dates, orders, cur, order_rows,
                   result, log, rnd>>

\* Lines 167-180: the next (year, month) of the loops, and the call
\* self.generate_monthly_orders(year, month, output_file, orders_per_month,
\* force_new_base_data=force_new_base_data) entered.
MultiCallMonthly ==
    /\ pc = "multi_loop"
    /\ LET months == LoopMonths(probe.start_year, probe.end_year,
                                probe.end_month)
       IN  /\ probe.months_processed < Len(months)
           /\ year' = months[probe.months_processed + 1][1]
           /\ month' = months[probe.months_processed + 1][2]
    /\ num_orders' = probe.orders_per_month
    /\ force_new' = probe.force_new_base_data
    /\ fs' = [fs EXCEPT !["orders"] = NoFile]
    /\ probe' = [probe EXCEPT !.disk = fs']
    /\ products' = <<>>
    /\ customers' = <<>>
    /\ dates' = <<>>
    /\ orders' = <<>>
    /\ cur' = <<>>
    /\ order_rows' = <<>>
    /\ result' = Running
    /\ log' = <<>>
    /\ pc' = "products"
    /\ UNCHANGED <<entry, io, rnd>>

\* What is remembered of one call of generate_monthly_orders.
Attempt ==
    [year |-> year, month |-> month,
     output_file |-> OrdersFileName(year, month),
     force |-> force_new, success |-> result.ret, exc |-> result.exc,
     before |-> probe.disk, after |-> fs, log |-> log]

\* Lines 182-191: the call has returned; the flag is cleared, the counters
\* go up.
MultiMonthReturned ==
    /\ pc = "done"
    /\ probe.fn = "multi_year"
    /\ probe' = [probe EXCEPT
          !.force_new_base_data =
              ForceAfterReport(probe.force_new_base_data, result.ret),
          !.months_succeeded = IF result.ret THEN @ + 1 ELSE @,
          !.months_processed = @ + 1,
          !.attempts = Append(@, Attempt)]
    /\ pc' = "multi_loop"
    /\ UNCHANGED <<entry, year, month, num_orders, force_new, fs, io,
                   products, customers, dates, orders, cur, order_rows,
                   result, log, rnd>>

\* Lines 193-195: the loops are over.
MultiFinish ==
    /\ pc = "multi_loop"
    /\ probe.months_processed >=
          Len(LoopMonths(probe.start_year, probe.end_year, probe.end_month))
    /\ probe' = [probe EXCEPT !.ret =
                    MultiReturn(probe.months_succeeded,
                                probe.months_processed)]
    /\ pc' = "multi_done"
    /\ UNCHANGED <<entry, year, month, num_orders, force_new, fs, io,
                   products, customers, dates, orders, cur, order_rows,
                   result, log, rnd>>

\* num_orders of the call generate_current_month makes (line 218): the
\* default of generate_monthly_orders, whatever --orders says.
CurrentMonthOrders(args_orders) == DEFAULT_ORDERS_PER_MONTH

\* force_new_base_data of that call: the default, whatever --force-new says.
CurrentMonthForce(flag) == FALSE

\* generate_monthly.main, line 46, and generate_current_month: the call
\* self.generate_monthly_orders(current_year, current_month, output_file)
\* entered.
MainCallCurrentMonth ==
    /\ pc = "main"
    /\ num_orders' = CurrentMonthOrders(probe.orders)
    /\ force_new' = CurrentMonthForce(probe.force_new)
    /\ probe' = [probe EXCEPT !.disk = fs]
    /\ pc' = "products"
    /\ UNCHANGED <<entry, year, month, fs, io, products, customers, dates,
                   orders, cur, order_rows, result, log, rnd>>

\* generate_monthly.main, lines 48-53: the exit status.
MainExit ==
    /\ pc = "done"
    /\ probe.fn = "generate_monthly"
    /\ probe' = [probe EXCEPT !.exit = IF result.ret THEN 0 ELSE 1]
    /\ pc' = "exited"
    /\ UNCHANGED <<entry, year, month, num_orders, force_new, fs, io,
                   products, customers, dates, orders, cur, order_rows,
                   result, log, rnd>>

InitCommands ==
    \/ InitMultiYear
    \/ InitMainMonthly

NextCommands ==
    \/ Run
    \/ MultiValidate
    \/ MultiCallMonthly
    \/ MultiMonthReturned
    \/ MultiFinish
    \/ MainCallCurrentMonth
    \/ MainExit

SpecCommands == InitCommands /\ [][NextCommands]_vars

-----------------------------------------------------------------------------
(* Product.from_row, Customer.from_row and Order.from_row called on rows     *)
(* of every length                                                           *)

\* A products line with no cell at its default, a customers line, and the
\* line of an order with a charge as write_csv writes it.
FullProductLine ==
    <<<<"D", "S", "L">>, <<"D", "i", "e", "s", "e", "l">>, "DSL2", "Lubricant",
      "M", "Rack", "A1", "TP1", "TG1", "Drum", "Liter", "Inactive", "No",
      "0123">>

FullCustomerLine ==
    <<CustomerId(7), <<"A", "c", "m", "e">>, "1 Main St", "Springfield",
      "IL", "62701", "Pat Doe", "555-0100", "pat@example.com">>

FullOrderLine ==
    CsvLine(Order_to_row(calculate_totals(
        Order("Acme Fuel Inc", OrderNumber(2024, 4, 0), 1, "Tank 1", E, "No",
              PyDate(Date(2024, 4, 1)), "Pending", E, PyNone,
              BolNumber(2024, 4, 0), "Diesel", 3570, 200, "Pump Fee",
              PyFloat(85000), PyStr(E)),
        DrawTaxRate(5), 5)))

\* The line with the text x in its cell k (counted from 1).
LineWith(line, k, x) == [line EXCEPT ![k] = x]

\* Every line cut after n cells, n from lo on.
Prefixes(lines, lo) ==
    UNION {{SubSeq(l, 1, n) : n \in lo..Len(l)} : l \in lines}

ProductLines ==
    Prefixes({LineWith(LineWith(FullProductLine, 1, c), 2, n) :
                 c \in {E, FullProductLine[1]},
                 n \in {E, FullProductLine[2]}}, 0)

CustomerLines ==
    Prefixes({LineWith(LineWith(FullCustomerLine, 1, c), 2, n) :
                 c \in {E, FullCustomerLine[1]},
                 n \in {E, FullCustomerLine[2]}}, 0)

\* Order lines of 12 to 22 cells: as written, or with a unit price, a
\* quantity or a tax total that is no number.
OrderLines ==
    Prefixes({FullOrderLine,
              LineWith(FullOrderLine, 13, <<"a", "b", "c">>),
              LineWith(FullOrderLine, 14, <<"x">>),
              LineWith(FullOrderLine, 18, <<"n", "/", "a">>)}, 12)

\* from_row of the class kind about to be called on a row csv.reader gave.
InitParse ==
    /\ pc = "from_row"
    /\ year = 2024 /\ month = 4 /\ num_orders = 0
    /\ \E kind \in {"Product", "Customer", "Order"} :
          \E line \in (CASE kind = "Product"  -> ProductLines
                          [] kind = "Customer" -> CustomerLines
                          [] kind = "Order"    -> OrderLines) :
             probe = [fn |-> "from_row", kind |-> kind, row |-> CsvRow(line),
                      exc |-> "none", value |-> <<>>]
    /\ rnd = ListRnd
    /\ Idle

\* cls.from_row(row): the exception it raises, or the object it returns.
ApplyFromRow ==
    /\ pc = "from_row"
    /\ LET row == probe.row
       IN  CASE probe.kind = "Product" ->
                  IF Product_from_row_raises(row)
                  THEN probe' = [probe EXCEPT !.exc = "ValueError"]
                  ELSE \E a \in rnd.min_price, b \in rnd.max_price :
                          probe' = [probe EXCEPT !.value =
                             <<Product_from_row(row, DrawMinPrice(a),
                                                DrawMaxPrice(b))>>]
             [] probe.kind = "Customer" ->
                  IF Customer_from_row_raises(row)
                  THEN probe' = [probe EXCEPT !.exc = "ValueError"]
                  ELSE probe' = [probe EXCEPT !.value =
                                    <<Customer_from_row(row)>>]
             [] probe.kind = "Order" ->
                  IF Order_from_row_exc(row) # "none"
                  THEN probe' = [probe EXCEPT !.exc = Order_from_row_exc(row)]
                  ELSE probe' = [probe EXCEPT !.value =
                                    <<Order_from_row(row)>>]
    /\ pc' = "returned"
    /\ UNCHANGED <<entry, year, month, num_orders, force_new, fs, io,
                   products, customers, dates, orders, cur, order_rows,
                   result, log, rnd>>

NextParse == ApplyFromRow

SpecParse == InitParse /\ [][NextParse]_vars

Next ==
    \/ Run
    \/ FormatOrderNumber

Spec == Init /\ [][Next]_vars

-----------------------------------------------------------------------------
(* Properties of generate_orders and of the two entry points *)

\* generate_orders has returned its list to the entry point.
OrdersReturned == pc = "write" \/ (pc = "done" /\ result.at = "none")

\* The orders built so far, the one under construction included.
Built == orders \o cur

\* The position of the last "-" of s (0 when there is none).
LastDash(s) ==
    IF \E k \in 1..Len(s) : s[k] = "-"
    THEN CHOOSE k \in 1..Len(s) :
            s[k] = "-" /\ \A l \in (k + 1)..Len(s) : s[l] # "-"
    ELSE 0

\* s reads ORD-YYYYMM-NNNN for year y, month m and index n: four digits of
\* year, two of month, four of index.
IsOrdYYYYMMNNNN(s, y, m, n) ==
    /\ Len(s) = 15
    /\ SubSeq(s, 1, 4) = <<"O", "R", "D", "-">>
    /\ s[11] = "-"
    /\ AllDigits(SubSeq(s, 5, 10)) /\ AllDigits(SubSeq(s, 12, 15))
    /\ DigitsValue(SubSeq(s, 5, 8)) = y
    /\ DigitsValue(SubSeq(s, 9, 10)) = m
    /\ DigitsValue(SubSeq(s, 12, 15)) = n

\* s reads ORD-, the year in decimal, the month in two digits, "-", and the
\* index n in decimal padded with zeros to at least four digits.
IsOrdNumber(s, y, m, n) ==
    LET d    == LastDash(s)
        ym   == SubSeq(s, 5, d - 1)
        tail == SubSeq(s, d + 1, Len(s))
    IN  /\ d >= 8
        /\ SubSeq(s, 1, 4) = <<"O", "R", "D", "-">>
        /\ AllDigits(ym) /\ AllDigits(tail)
        /\ DigitsValue(SubSeq(ym, 1, Len(ym) - 2)) = y
        /\ ym[1] # "0"
        /\ DigitsValue(SubSeq(ym, Len(ym) - 1, Len(ym))) = m
        /\ DigitsValue(tail) = n
        /\ Len(tail) >= 4
        /\ Len(tail) > 4 => tail[1] # "0"

\* generate_orders ran to its return statement or is still running: no
\* exception left it.
NotRaised == result.at \notin {"dates", "loop"}

\* C1 as stated: for every year, every month 1..12 and every count >= 1,
\* generate_orders returns exactly count orders whose order numbers are
\* pairwise distinct and read ORD-YYYYMM-NNNN.
C1_AsStated ==
    /\ (/\ entry # "none"
        /\ num_orders >= 1
        /\ MonthIsLegal(month) /\ year \in MINYEAR..MAXYEAR)
       => /\ NotRaised
          /\ OrdersReturned => Len(orders) = num_orders
          /\ \A k \in 1..Len(Built) :
                IsOrdYYYYMMNNNN(Built[k].order_number, year, month, k)
          /\ \A k \in 1..Len(Built), l \in 1..Len(Built) :
                k # l => Built[k].order_number # Built[l].order_number
    /\ (probe.fn = "order_number" /\ pc = "returned")
       => /\ IsOrdYYYYMMNNNN(probe.out[1], year, month, probe.i + 1)
          /\ IsOrdYYYYMMNNNN(probe.out[2], year, month, probe.j + 1)
          /\ probe.out[1] # probe.out[2]

\* C1 (amended): for a legal month of a year 1..9999 and a count >= 1,
\* generate_orders given non-empty catalogs returns exactly count orders,
\* unless the month is December 9999 (the day after 9999-12-31 overflows);
\* the order numbers are pairwise distinct and read ORD-, year, two-digit
\* month, "-", index padded to at least four digits, which is the form
\* ORD-YYYYMM-NNNN exactly when the year has four digits and the index at
\* most four.
C1_CountAndOrderNumbers ==
    /\ (/\ entry # "none"
        /\ num_orders >= 1
        /\ MonthIsLegal(month) /\ year \in MINYEAR..MAXYEAR)
       => /\ ~(year = MAXYEAR /\ month = 12) => NotRaised
          /\ OrdersReturned => Len(orders) = num_orders
          /\ \A k \in 1..Len(Built) :
                /\ IsOrdNumber(Built[k].order_number, year, month, k)
                /\ year >= 1000 =>
                      IsOrdYYYYMMNNNN(Built[k].order_number, year, month, k)
          /\ \A k \in 1..Len(Built), l \in 1..Len(Built) :
                k # l => Built[k].order_number # Built[l].order_number
    /\ (probe.fn = "order_number" /\ pc = "returned")
       => /\ IsOrdNumber(probe.out[1], year, month, probe.i + 1)
          /\ IsOrdNumber(probe.out[2], year, month, probe.j + 1)
          /\ probe.out[1] # probe.out[2]
          /\ (year >= 1000 /\ probe.i + 1 <= 9999)
                <=> IsOrdYYYYMMNNNN(probe.out[1], year, month, probe.i + 1)

\* A run that returned True with MaxOrders orders of a four-digit year
C1_Witness ==
    /\ pc = "done" /\ result.ret
    /\ num_orders >= 2 /\ Len(orders) = num_orders
    /\ year = 2024 /\ month = 12
    /\ orders[2].order_number =
          <<"O","R","D","-","2","0","2","4","1","2","-","0","0","0","2">>

\* The number of days of month m of year y, by the Gregorian rules.
LastDayOf(y, m) ==
    CASE m \in {1, 3, 5, 7, 8, 10, 12} -> 31
      [] m \in {4, 6, 9, 11}           -> 30
      [] OTHER -> IF y % 400 = 0 \/ (y % 4 = 0 /\ y % 100 # 0) THEN 29 ELSE 28

\* C2: every drawn date and every order's date is a date of the requested
\* month of the requested year, between its first day and its last day by
\* the Gregorian month lengths (29 February exists in 2024 and 2000, not in
\* 2023 or 1900).
C2_DatesWithinMonth ==
    entry # "none" =>
       /\ \A k \in 1..Len(dates) :
             /\ dates[k].year = year /\ dates[k].month = month
             /\ dates[k].day \in 1..LastDayOf(year, month)
       /\ \A k \in 1..Len(Built) :
             /\ Built[k].date.t = "date"
             /\ Built[k].date.v.year = year /\ Built[k].date.v.month = month
             /\ Built[k].date.v.day \in 1..LastDayOf(year, month)

\* An order dated 29 February 2024 and an order dated the first of the month
C2_Witness ==
    /\ OrdersReturned /\ year = 2024 /\ month = 2 /\ Len(orders) = 2
    /\ orders[1].date.v.day = 1
    /\ orders[2].date.v.day = 29

\* The index NNNN an order number ends in.
OrderIndex(s) == DigitsValue(SubSeq(s, LastDash(s) + 1, Len(s)))

\* The list only grows at its end, and grows by the order under construction;
\* once returned it stays as it is.
OrdersAppendOnly ==
    /\ \A k \in 1..Len(orders) : k <= Len(orders') /\ orders'[k] = orders[k]
    /\ Len(orders') <= Len(orders) + 1
    /\ OrdersReturned => orders' = orders
    /\ dates # <<>> => dates' = dates

\* The orders are in non-decreasing date order by position: the order at
\* position k has index k and the k-th smallest of the pre-drawn dates.
OrdersInDateOrder ==
    entry # "none" =>
       /\ \A k \in 1..Len(dates), l \in 1..Len(dates) :
             k <= l => DateLE(dates[k], dates[l])
       /\ \A k \in 1..Len(Built), l \in 1..Len(Built) :
             k <= l => DateLE(Built[k].date.v, Built[l].date.v)
       /\ \A k \in 1..Len(Built) :
             /\ Built[k].date.v = dates[k]
             /\ OrderIndex(Built[k].order_number) = k
       /\ OrdersReturned => Len(orders) = Len(dates)

\* C3: the returned orders are in non-decreasing date order by position, the
\* order at position i (0-based) carrying index i+1 and the i-th smallest of
\* the pre-drawn dates; the list is built by appending and never re-ordered.
C3_SortedByDate == [](OrdersInDateOrder) /\ [][OrdersAppendOnly]_vars

\* Two orders returned with different dates
C3_Witness ==
    /\ OrdersReturned /\ Len(orders) = 2
    /\ orders[1].date.v # orders[2].date.v
    /\ DateLE(orders[1].date.v, orders[2].date.v)

\* C6: the invoice date of an order that has one is the day after the order
\* date, except for an order dated the last day of the month (31 December
\* included), whose invoice date is the order date; it is always a date of
\* the order's month and year. Only Completed orders have one.
C6_InvoiceDate ==
    \A k \in 1..Len(Built) :
       LET d   == Built[k].date.v
           inv == Built[k].invoice_date
       IN  /\ inv.t \in {"date", "None"}
           /\ inv.t = "date" <=> Built[k].status = "Completed"
           /\ inv.t = "date" =>
                 /\ inv.v.year = d.year /\ inv.v.month = d.month
                 /\ IF d.day = LastDayOf(d.year, d.month)
                    THEN inv.v = d
                    ELSE inv.v = [d EXCEPT !.day = d.day + 1]

\* A Completed order of 31 December next to one of 30 December
C6_Witness ==
    /\ OrdersReturned /\ year = 2024 /\ month = 12 /\ Len(orders) = 2
    /\ orders[1].status = "Completed" /\ orders[2].status = "Completed"
    /\ orders[1].date.v.day = 30 /\ orders[1].invoice_date.v.day = 31
    /\ orders[2].date.v.day = 31 /\ orders[2].invoice_date.v.day = 31

\* C9: with count 0, for any year and month (a month or year no date exists
\* in included), generate_orders returns the empty list without drawing a
\* date or raising; the entry point then writes the orders file as the
\* header row only and returns True (False only when write_csv itself
\* failed, leaving no such file).
C9_ZeroOrders ==
    (entry # "none" /\ num_orders = 0) =>
       /\ dates = <<>> /\ Built = <<>>
       /\ NotRaised
       /\ pc \in {"write", "done"} => order_rows = <<>>
       /\ (pc = "done" /\ result.at = "none") =>
             /\ result.ret <=>
                   fs["orders"] = File(<<ORDER_HEADERS>>)
             /\ ~result.ret =>
                   fs["orders"] \in {NoFile, File(<<>>)}

\* generate_monthly_orders(2024, 13, ..., 0) returned True and left the header
C9_Witness ==
    /\ entry = "monthly" /\ num_orders = 0 /\ month = 13
    /\ pc = "done" /\ result.ret
    /\ fs["orders"].exists /\ Len(fs["orders"].lines) = 1

\* The names of the events of the order at position k, in order of occurrence.
RECURSIVE EventsOf(_, _)
EventsOf(l, k) ==
    IF l = <<>> THEN <<>>
    ELSE IF l[1].i = k THEN <<l[1].ev>> \o EventsOf(Tail(l), k)
    ELSE EventsOf(Tail(l), k)

Lifecycle == <<"Order", "calculate_totals", "to_row">>

\* An order is not touched once it is in the list, nor once it is serialized.
OrdersFrozen ==
    /\ \A k \in 1..Len(orders) : k <= Len(orders') /\ orders'[k] = orders[k]
    /\ order_rows # <<>> => (order_rows' = order_rows /\ orders' = orders)

\* Every order went through construction, then calculate_totals exactly once,
\* then to_row, in this order.
OrdersFollowLifecycle ==
    entry # "none" =>
       /\ \A k \in 1..Len(orders) :
             EventsOf(log, k) =
                IF pc \in {"write", "done"} /\ result.at = "none"
                THEN Lifecycle ELSE SubSeq(Lifecycle, 1, 2)
       /\ cur # <<>> => EventsOf(log, Len(orders) + 1) = <<"Order">>
       /\ \A k \in 1..Len(orders) :
             LET o == orders[k]
             IN  \* the derived fields are those of one calculate_totals
                 /\ o.total_cost = TotalCost(main_charges(o))
                 /\ \E t \in rnd.tax, x \in rnd.exempt :
                       calculate_totals(o, DrawTaxRate(t), x) = o
       /\ (pc \in {"write", "done"} /\ result.at = "none") =>
             order_rows = OrderRows(orders)

\* C10: on generate_monthly_orders and generate_single_file every order is
\* constructed, then has calculate_totals applied exactly once, then is
\* serialized by to_row, and is not changed after its serialization.
C10_Lifecycle == [](OrdersFollowLifecycle) /\ [][OrdersFrozen]_vars

\* Both entry points wrote two orders that went through the three steps
C10_Witness ==
    /\ pc = "done" /\ result.ret /\ entry = "single"
    /\ Len(orders) = 2 /\ Len(order_rows) = 2
    /\ EventsOf(log, 2) = Lifecycle

\* The order calculate_totals was applied to, before and after.
TotalsApplied == probe.fn = "calculate_totals" /\ pc = "returned"

\* The amount of a charge field: its value when it is an int or a float, 0
\* when it is a str.
ChargeAmount(c) ==
    CASE c.t = "float" -> c.v
      [] c.t = "int"   -> 1000 * c.v
      [] OTHER         -> 0

\* C4: after calculate_totals, total = round(unit_price * quantity, 2) +
\* additional_charges + special_charges + total_taxes - exempt_taxes, a
\* charge counting as 0 when its field is a string, the empty one included.
C4_Total ==
    TotalsApplied =>
       LET x == cur[1]
           o == orders[1]
       IN  /\ o.total = Round2(x.unit_price * x.quantity, 1)
                           + ChargeAmount(x.charges)
                           + ChargeAmount(x.special_charges)
                           + o.total_taxes - o.exempt_taxes
           /\ o.unit_price = x.unit_price /\ o.quantity = x.quantity
           /\ o.charges = x.charges /\ o.special_charges = x.special_charges

\* An order with a numeric charge, an empty special charge and taxes
C4_Witness ==
    /\ TotalsApplied
    /\ cur[1].charges = PyFloat(85000) /\ cur[1].special_charges = PyStr(E)
    /\ cur[1].unit_price = 3570 /\ cur[1].quantity = 200
    /\ orders[1].total_taxes > orders[1].exempt_taxes
    /\ orders[1].exempt_taxes > 0
    /\ orders[1].total > 714000 + 85000

\* C5 as stated: total_cost = round(main_charges * 0.85, 2), and
\* margin_per_gallon is 0.0 when quantity == 0 and
\* round((main_charges - total_cost) / quantity, 3) for every other quantity.
C5_AsStated ==
    TotalsApplied =>
       LET o    == orders[1]
           main == Round2(o.unit_price * o.quantity, 1)
       IN  /\ o.total_cost = Round2(main * 85, 100)
           /\ o.margin_per_gallon =
                 IF o.quantity = 0 THEN 0
                 ELSE IF o.quantity > 0
                      THEN Round3(main - o.total_cost, o.quantity)
                      ELSE Round3(o.total_cost - main, -o.quantity)

\* C5 (amended): total_cost = round(main_charges * 0.85, 2); margin_per_gallon
\* is 0.0 whenever quantity <= 0 (no division is attempted) and
\* round((main_charges - total_cost) / quantity, 3) whenever quantity > 0.
C5_CostAndMargin ==
    TotalsApplied =>
       LET o    == orders[1]
           main == Round2(o.unit_price * o.quantity, 1)
       IN  /\ o.total_cost = Round2(main * 85, 100)
           /\ o.quantity <= 0 => o.margin_per_gallon = 0
           /\ o.quantity > 0 =>
                 o.margin_per_gallon =
                    Round3(main - o.total_cost, o.quantity)

\* An order of quantity 0 with a price: margin 0.0
C5_Witness ==
    /\ TotalsApplied
    /\ orders[1].quantity = 0 /\ orders[1].unit_price = 3570
    /\ orders[1].margin_per_gallon = 0 /\ orders[1].total_cost = 0

\* The backing files of a catalog function.
BackingFiles(fn) ==
    IF fn = "generate_products" THEN {"products"}
    ELSE {"customers", "sequences"}

\* The call c wrote, read or left alone what the claim says.
WritesAsClaimed(c) ==
    LET absent == \E f \in BackingFiles(c.fn) : ~c.before[f].exists
    IN  /\ c.wrote <=> (c.force \/ absent)
        /\ ~c.wrote => c.after = c.before
        /\ \A f \in FileNames \ BackingFiles(c.fn) : c.after[f] = c.before[f]
        /\ (c.wrote /\ c.exc = "none" /\ c.fn = "generate_products") =>
              c.after["products"] = File(CsvLines(PRODUCT_HEADERS, c.rows))
        /\ (c.wrote /\ c.exc = "none" /\ c.fn = "generate_customers") =>
              c.after["customers"] = File(CsvLines(CUSTOMER_HEADERS, c.rows))
        /\ c.exc = "none" => c.rows # <<>>

\* C8: generate_products and generate_customers call write_csv if and only
\* if force_new is set or a backing file is absent; otherwise they leave the
\* disk as it was.  A call with force_new=False that follows a call of the
\* same function that returned (whether that one wrote or read) writes
\* nothing, leaves the files as they were and returns the same catalog rows.
C8_CatalogWrites ==
    (probe.fn = "catalog" /\ probe.calls >= 1) =>
       /\ WritesAsClaimed(probe.last)
       /\ (/\ probe.prev.fn = probe.last.fn
           /\ probe.prev.exc = "none"
           /\ ~probe.last.force)
          => /\ ~probe.last.wrote
             /\ probe.last.exc = "none"
             /\ probe.last.rows = probe.prev.rows
             /\ probe.last.after = probe.prev.after

\* generate_products twice with force_new=False on a path with no file: the
\* first call wrote, the second read the same rows with other price bands.
C8_Witness ==
    /\ probe.fn = "catalog" /\ probe.calls = 2
    /\ probe.prev.fn = "generate_products"
    /\ probe.last.fn = "generate_products"
    /\ ~probe.prev.force /\ ~probe.last.force
    /\ probe.prev.wrote /\ probe.prev.exc = "none"
    /\ ~probe.last.wrote
    /\ probe.last.rows = probe.prev.rows
    /\ probe.last.items # probe.prev.items
    /\ fs["products"] = File(CsvLines(PRODUCT_HEADERS, probe.last.rows))

\* The customers and orders of a finished run went through to_row and
\* from_row.
RoundTripped == probe.fn = "round_trip" /\ pc = "checked"

\* The order Order.from_row builds of the CSV text of o.to_row(): o with the
\* two dates as their text MM/DD/YYYY (no invoice date: the empty text) and
\* a sequence_id below zero as 0.
AsParsed(o) ==
    [o EXCEPT !.date = PyStr(strftime(o.date.v)),
              !.invoice_date = IF o.invoice_date.t = "date"
                               THEN PyStr(strftime(o.invoice_date.v))
                               ELSE PyStr(E),
              !.sequence_id = IF o.sequence_id >= 0 THEN o.sequence_id ELSE 0]

-----------------------------------------------------------------------------
(* generate_customers and generate_products: what they return *)

\* A call of the catalog function fn has been made and is the last one.
Called(fn) ==
    probe.fn = "catalog" /\ probe.calls >= 1 /\ probe.last.fn = fn

\* The data lines of the file f: those after the header line.
DataLines(f) == {k \in 2..Len(f.lines) : TRUE}

\* The customer id has a row of three cells or more in the sequences file f.
HasSequenceLine(f, id) ==
    \E k \in DataLines(f) : Len(f.lines[k]) >= 3 /\ f.lines[k][1] = id

\* C11: every customer of the list generate_customers returns has at least
\* one sequence, on the synthesize path and on the load path; on the load
\* path a customer of the customers file is returned exactly when the
\* sequences file has a row for it, so random.choice(customer.sequences) in
\* generate_orders always has something to pick.
C11_CustomersHaveSequences ==
    (Called("generate_customers") /\ probe.last.exc = "none") =>
       LET c  == probe.last
           fc == c.before["customers"]
           fq == c.before["sequences"]
       IN  /\ customers = c.items
           /\ \A k \in 1..Len(c.items) :
                 /\ Len(c.items[k].sequences) >= 1
                 /\ has_sequences(c.items[k])
                 /\ Pick(Len(c.items[k].sequences), rnd.sequence) # {}
           /\ ~c.wrote =>
                 /\ \A k \in 1..Len(c.items) :
                       HasSequenceLine(fq, c.items[k].customer_id)
                 /\ \A l \in DataLines(fc) :
                       (Len(fc.lines[l]) >= 2
                          /\ ~HasSequenceLine(fq, fc.lines[l][1]))
                       => \A k \in 1..Len(c.items) :
                             c.items[k].customer_id # fc.lines[l][1]

\* A load from a customers file of two customers, the second without a row
\* in the sequences file: one customer is returned.
C11_Witness ==
    /\ Called("generate_customers") /\ probe.last.exc = "none"
    /\ ~probe.last.wrote
    /\ probe.last.before = SparseDisk
    /\ Len(read_csv(probe.last.before["customers"])) = 2
    /\ Len(probe.last.items) = 1
    /\ probe.last.items[1].customer_id = CustomerId(1)


\* The catalog the call c had in hand when it reached its final check is
\* empty: on the load path no row of the file can be kept (for customers:
\* no customer with a row in the sequences file), on the synthesize path
\* nothing was created and neither write_csv failed.
EmptyInHand(c) ==
    IF c.fn = "generate_products"
    THEN /\ ~c.wrote
         /\ \A l \in DataLines(c.before["products"]) :
               Len(c.before["products"].lines[l]) < 2
    ELSE \/ /\ ~c.wrote
            /\ \A l \in DataLines(c.before["customers"]) :
                  \/ Len(c.before["customers"].lines[l]) < 2
                  \/ ~HasSequenceLine(c.before["sequences"],
                                      c.before["customers"].lines[l][1])
         \/ /\ c.wrote
            /\ probe.num = 0
            /\ c.exc # "IOError"

\* C12: generate_products and generate_customers never return an empty
\* collection: a call that returns returns at least one item, and a call
\* whose collection is empty after loading or creating (a header-only file,
\* only customers without sequences, num_customers = 0) raises ValueError,
\* the empty-catalog error, and leaves the caller's catalog as it was.
C12_NeverEmpty ==
    (probe.fn = "catalog" /\ probe.calls >= 1) =>
       LET c == probe.last
       IN  /\ c.exc = "none" => c.items # <<>> /\ c.rows # <<>>
           /\ EmptyInHand(c) => c.exc = "ValueError"
           /\ c.exc = "ValueError" => EmptyInHand(c)

\* generate_customers with num_customers = 0 on an empty disk: both files
\* are written with their header only and the call raises ValueError.
C12_Witness ==
    /\ Called("generate_customers")
    /\ probe.num = 0
    /\ probe.last.wrote
    /\ probe.last.before = EmptyDisk
    /\ fs["customers"] = File(<<CUSTOMER_HEADERS>>)
    /\ fs["sequences"] = File(<<SEQUENCE_HEADERS>>)
    /\ probe.last.exc = "ValueError"
    /\ customers = <<>>


-----------------------------------------------------------------------------
(* generate_multi_year_reports and the commands *)

\* The steps of one monthly report.
InReport == pc \in {"products", "customers", "dates", "loop", "write", "done"}

\* The two catalogs as groups of files: each is written or read as a whole.
CatalogGroups == {BackingFiles("generate_products"),
                  BackingFiles("generate_customers")}

\* The report a wrote to the file f / read the file f.
Wrote(a, f) ==
    \E k \in 1..Len(a.log) : a.log[k].ev = "write_csv" /\ a.log[k].file = f

ReadFile(a, f) ==
    \E k \in 1..Len(a.log) : a.log[k].ev = "read_csv" /\ a.log[k].file = f

\* C13: in generate_multi_year_reports only the first monthly report of the
\* run is called with force_new_base_data = True; every later report is
\* called with False, whether or not the first report succeeded, and reuses
\* each catalog the first report left on disk: it reads it, writes none of
\* its files and leaves them as the first report left them.
C13_ForceOnlyFirst ==
    probe.fn = "multi_year" =>
       /\ \A k \in 1..Len(probe.attempts) :
             probe.attempts[k].force <=> (k = 1)
       /\ probe.force_new_base_data <=> (probe.attempts = <<>>)
       /\ InReport => (force_new <=> (probe.attempts = <<>>))
       /\ \A k \in 2..Len(probe.attempts) : \A g \in CatalogGroups :
             LET first == probe.attempts[1]
                 a     == probe.attempts[k]
             IN  (\A f \in g : first.after[f].exists) =>
                    \A f \in g : /\ ~Wrote(a, f)
                                 /\ a.before[f] = first.after[f]
                                 /\ a.after[f] = first.after[f]
                                 /\ (a.exc = "none" => ReadFile(a, f))

\* A run whose first report persisted both catalogs and then failed to
\* write its orders file; the second report, called with False, read the
\* catalogs and succeeded.
C13_Witness ==
    /\ probe.fn = "multi_year"
    /\ Len(probe.attempts) = 2
    /\ probe.attempts[1].force /\ ~probe.attempts[1].success
    /\ probe.attempts[1].before = EmptyDisk
    /\ \A f \in {"products", "customers", "sequences"} :
          /\ Wrote(probe.attempts[1], f)
          /\ probe.attempts[1].after[f].exists
          /\ ReadFile(probe.attempts[2], f)
    /\ ~probe.attempts[2].force /\ probe.attempts[2].success


\* generate_multi_year_reports has returned.
MultiDone == probe.fn = "multi_year" /\ pc = "multi_done"

\* The (year, month) from (start_year, 1) through (end_year, end_month).
MonthsOfRange ==
    {ym \in (probe.start_year..probe.end_year) \X (1..13) :
        \/ ym[1] < probe.end_year /\ ym[2] <= 12
        \/ ym[1] = probe.end_year /\ ym[2] <= probe.end_month}

\* The attempts that succeeded.
Succeeded == {k \in 1..Len(probe.attempts) : probe.attempts[k].success}

\* The orders file of the attempt a holds the header and every order.
OrdersFileWhole(a) ==
    /\ a.after["orders"].exists
    /\ Len(a.after["orders"].lines) = 1 + probe.orders_per_month
    /\ a.after["orders"].lines[1] = ORDER_HEADERS

\* C14: generate_multi_year_reports attempts every month of the range even
\* when an earlier month failed: an exception or a failed write inside a
\* month makes that month a failure and nothing more; and the value
\* returned is True exactly when at least one month succeeded.
C14_EveryMonthAttempted ==
    MultiDone =>
       /\ {<<probe.attempts[k].year, probe.attempts[k].month>> :
               k \in 1..Len(probe.attempts)} = MonthsOfRange
       /\ \A k \in 1..Len(probe.attempts) :
             probe.attempts[k].success <=>
                (probe.attempts[k].exc = "none"
                    /\ OrdersFileWhole(probe.attempts[k]))
       /\ probe.months_succeeded = Cardinality(Succeeded)
       /\ probe.ret <=> (Succeeded # {})

\* Two months: the first failed on an exception, the second was attempted
\* and succeeded, and the run returned True.
C14_Witness ==
    /\ MultiDone
    /\ Len(probe.attempts) = 2
    /\ probe.attempts[1].exc = "IOError" /\ ~probe.attempts[1].success
    /\ probe.attempts[2].success
    /\ probe.ret

\* s is f"orders_{y}_{m:02d}.csv" for a year of four digits.
IsOrdersFileName(s, y, m) ==
    /\ Len(s) = 18
    /\ SubSeq(s, 1, 7) = <<"o", "r", "d", "e", "r", "s", "_">>
    /\ AllDigits(SubSeq(s, 8, 11)) /\ DigitsValue(SubSeq(s, 8, 11)) = y
    /\ s[12] = "_"
    /\ AllDigits(SubSeq(s, 13, 14)) /\ DigitsValue(SubSeq(s, 13, 14)) = m
    /\ SubSeq(s, 15, 18) = <<".", "c", "s", "v">>

\* C15: generate_multi_year_reports attempts exactly one monthly report for
\* each (year, month) from (start_year, 1) through (end_year, end_month),
\* in ascending chronological order, each with orders_{year}_{month:02d}.csv
\* as its output file, which it writes unless an exception ends the month
\* before; for end_month in 1..12 the number of months processed equals
\* the announced total_months.
C15_OneReportPerMonth ==
    probe.fn = "multi_year" =>
       LET as == probe.attempts
       IN  /\ \A k \in 1..Len(as) :
                 /\ <<as[k].year, as[k].month>> \in MonthsOfRange
                 /\ IsOrdersFileName(as[k].output_file, as[k].year,
                                     as[k].month)
                 /\ as[k].exc = "none" => Wrote(as[k], "orders")
                 /\ as[k].success => OrdersFileWhole(as[k])
           /\ \A j, k \in 1..Len(as) :
                 j < k => \/ as[j].year < as[k].year
                          \/ as[j].year = as[k].year /\ as[j].month < as[k].month
           /\ probe.months_processed = Len(as)
           /\ (MultiDone /\ ~RangeRejected(probe.start_year, probe.end_year,
                                            probe.end_month)) =>
                 /\ Len(as) = Cardinality(MonthsOfRange)
                 /\ probe.end_month \in 1..12 =>
                       probe.months_processed = probe.total_months

\* Three years through December: 36 reports, 36 announced.
C15_Witness ==
    /\ MultiDone
    /\ probe.start_year = 2022 /\ probe.end_year = 2024
    /\ probe.end_month = 12
    /\ Len(probe.attempts) = 36
    /\ probe.total_months = 36
    /\ probe.attempts[13].year = 2023 /\ probe.attempts[13].month = 1
    /\ probe.attempts[36].output_file = OrdersFileName(2024, 12)
    /\ Succeeded = 1..36

\* C16 as stated: generate_multi_year_reports rejects an invalid range
\* without attempting a report or writing a file: whenever start_year >
\* end_year or end_month is not in 1..12, no report is ever entered, the
\* disk stays as it was and the value returned is False.
C16_AsStated ==
    (probe.fn = "multi_year"
        /\ (probe.start_year > probe.end_year \/ probe.end_month \notin 1..12))
    => /\ ~InReport
       /\ probe.attempts = <<>>
       /\ fs \in {EmptyDisk, OldDisk}
       /\ MultiDone => ~probe.ret


\* The command generate_monthly.py has exited.
MainExited == probe.fn = "generate_monthly" /\ pc = "exited"

\* C17 as stated: the flags of the generate-current-month command take
\* effect: after a successful run with --orders N the orders file holds
\* exactly N orders, and with --force-new the product and customer catalogs
\* were written afresh, not read from the files that were there.
C17_AsStated ==
    (MainExited /\ probe.exit = 0) =>
       /\ Len(read_csv(fs["orders"])) = probe.orders
       /\ Len(orders) = probe.orders
       /\ probe.force_new =>
             \A f \in {"products", "customers", "sequences"} :
                /\ Wrote([log |-> log], f)
                /\ ~ReadFile([log |-> log], f)


-----------------------------------------------------------------------------
(* write_csv when a write fails *)

\* The entry point returned False because write_csv on the orders file did.
OrdersWriteFailed ==
    /\ pc = "done" /\ result.done /\ ~result.ret /\ result.exc = "none"
    /\ Wrote([log |-> log], "orders")

\* C18 as stated: a write failure is all-or-nothing per file: when
\* write_csv fails, before or after the header or some rows were written,
\* the target file is left with its previous content or absent, never
\* truncated or holding part of the rows; write_csv returns False and the
\* month is reported as failed.  The orders file is absent before the call,
\* so it is absent after a failed one.
C18_AsStated ==
    OrdersWriteFailed =>
       /\ fs["orders"] = NoFile
       /\ ~result.ret


-----------------------------------------------------------------------------
(* from_row on short and malformed rows *)

\* from_row has been called on probe.row.
Parsed == probe.fn = "from_row" /\ pc = "returned"

\* The value of a numeric field per field: the number in cell k (counted
\* from 0) when the cell is there and parses, the default 0 otherwise.
FloatPerField(row, k) ==
    IF k < Len(row) /\ Truthy(row[k + 1]) /\ ToFloat(row[k + 1]).exc = "none"
    THEN ToFloat(row[k + 1]).v ELSE 0

IntPerField(row, k) ==
    IF k < Len(row) /\ Truthy(row[k + 1]) /\ ToInt(row[k + 1]).exc = "none"
    THEN ToInt(row[k + 1]).v ELSE 0

\* A charge per field: the cell as it is when blank, its number when it
\* parses, the default "" when the cell is absent or does not parse.
ChargePerField(row, k) ==
    IF k >= Len(row) THEN PyStr(E)
    ELSE IF Strip(row[k + 1].v) = E THEN row[k + 1]
    ELSE IF ToFloat(row[k + 1]).exc = "none"
         THEN PyFloat(ToFloat(row[k + 1]).v)
         ELSE PyStr(E)

\* C19 as stated: parsing defaults are per field: a row below the minimum
\* length (14 for Order, 2 for Product and Customer) makes from_row raise
\* the missing-fields error; on a longer row that lacks optional trailing
\* fields every field present in the row keeps its parsed value and only
\* the absent or unparseable fields take their defaults.
C19_AsStated ==
    Parsed =>
       LET row == probe.row
           min == IF probe.kind = "Order" THEN 14 ELSE 2
       IN  /\ Len(row) < min => probe.exc = "ValueError"
           /\ Len(row) >= min =>
                 /\ probe.exc = "none"
                 /\ LET x == probe.value[1] IN
                    CASE probe.kind = "Product" ->
                           /\ x.code = row[1].v /\ x.name = row[2].v
                           /\ x.product_group =
                                 (IF Len(row) > 3 THEN row[4].v ELSE "Fuel")
                           /\ x.status =
                                 (IF Len(row) > 11 THEN row[12].v ELSE "Active")
                           /\ x.upc_code =
                                 (IF Len(row) > 13 THEN row[14].v ELSE "")
                      [] probe.kind = "Customer" ->
                           /\ x.customer_id = row[1].v /\ x.name = row[2].v
                           /\ x.address = (IF Len(row) > 2 THEN row[3].v ELSE "")
                           /\ x.email = (IF Len(row) > 8 THEN row[9].v ELSE "")
                      [] probe.kind = "Order" ->
                           /\ x.customer_name = row[1].v
                           /\ x.product_name = row[12].v
                           /\ x.unit_price = FloatPerField(row, 12)
                           /\ x.quantity = IntPerField(row, 13)
                           /\ x.additional_product =
                                 (IF Len(row) > 14 THEN row[15].v ELSE "")
                           /\ x.charges = ChargePerField(row, 15)
                           /\ x.special_charges = ChargePerField(row, 16)
                           /\ x.total_taxes = FloatPerField(row, 17)
                           /\ x.total = FloatPerField(row, 18)
                           /\ x.exempt_taxes = FloatPerField(row, 19)
                           /\ x.total_cost = FloatPerField(row, 20)
                           /\ x.margin_per_gallon = FloatPerField(row, 21)

\* A cell of the row is absent or empty.
Missing(row, k) == k >= Len(row) \/ row[k + 1].v = E

\* C20 as stated: identity fields are mandatory: a Product or Customer row
\* whose code/id or name is absent or empty makes from_row raise the
\* malformed-record error, whereas a value that is no number in a numeric
\* field of an Order row yields the zero default and nothing is raised.
C20_AsStated ==
    Parsed =>
       LET row == probe.row
       IN  /\ (probe.kind \in {"Product", "Customer"}
                  /\ (Missing(row, 0) \/ Missing(row, 1)))
              => probe.exc = "ValueError"
           /\ (probe.kind = "Order" /\ Len(row) >= 14) =>
                 /\ probe.exc = "none"
                 /\ ToFloat(row[13]).exc # "none" =>
                       probe.value[1].unit_price = 0
                 /\ ToInt(row[14]).exc # "none" =>
                       probe.value[1].quantity = 0
                 /\ (Len(row) > 17 /\ ToFloat(row[18]).exc # "none") =>
                       probe.value[1].total_taxes = 0

-----------------------------------------------------------------------------
(* Properties of the identifiers and charges of generated orders *)

\* s reads the prefix, the year in decimal, the month in two digits, "-", and
\* the index n in decimal padded with zeros to at least width digits.
IsIdNumber(s, prefix, y, m, n, width) ==
    LET d    == LastDash(s)
        p    == Len(prefix)
        ym   == SubSeq(s, p + 1, d - 1)
        tail == SubSeq(s, d + 1, Len(s))
    IN  /\ d >= p + 4
        /\ SubSeq(s, 1, p) = prefix
        /\ AllDigits(ym) /\ AllDigits(tail)
        /\ DigitsValue(SubSeq(ym, 1, Len(ym) - 2)) = y
        /\ ym[1] # "0"
        /\ DigitsValue(SubSeq(ym, Len(ym) - 1, Len(ym))) = m
        /\ DigitsValue(tail) = n
        /\ Len(tail) >= width
        /\ Len(tail) > width => tail[1] # "0"

\* The rows to_row gives for the orders built so far.
BuiltRows == [k \in 1..Len(Built) |-> Order_to_row(Built[k])]

\* C21: for every generated order, the invoice number and the invoice date
\* are present exactly when the status is "Completed": a Completed order has
\* the invoice number INV-{yyyymm}-{i+1:04d} and an invoice date that to_row
\* writes as a non-empty text; an "In Progress" or "Pending" order has an
\* empty invoice number and no invoice date, and to_row writes both empty.
C21_InvoiceIffCompleted ==
    \A k \in 1..Len(Built) :
       LET o == Built[k] IN
       /\ o.status \in {"Completed", "In Progress", "Pending"}
       /\ o.status = "Completed" <=> o.invoice_number # E
       /\ o.status = "Completed" <=> o.invoice_date # PyNone
       /\ o.status = "Completed"
            => /\ IsIdNumber(o.invoice_number, <<"I", "N", "V", "-">>,
                             year, month, k, 4)
               /\ o.invoice_date.t = "date"
               /\ BuiltRows[k][10].v # E
       /\ o.status # "Completed"
            => /\ BuiltRows[k][9] = PyStr(E)
               /\ BuiltRows[k][10] = PyStr(E)

\* Two orders of one batch, the first not completed and the second completed.
C21_Witness ==
    /\ Len(orders) >= 2
    /\ orders[1].status = "In Progress" /\ orders[1].invoice_number = E
    /\ orders[2].status = "Completed" /\ orders[2].invoice_number # E

\* C22: for every generated order, the PO number is non-empty exactly when
\* po_required is "Yes"; when required it is PO-{yyyymm}-{i+1:03d} for the
\* generation index i of the order, otherwise it is the empty string.
C22_PoIffRequired ==
    \A k \in 1..Len(Built) :
       LET o == Built[k] IN
       /\ o.po_required \in {"Yes", "No"}
       /\ o.po_required = "Yes" <=> o.po_number # E
       /\ o.po_required = "Yes"
            => IsIdNumber(o.po_number, <<"P", "O", "-">>, year, month, k, 3)
       /\ o.po_required # "Yes" => o.po_number = E

\* Two orders of one batch, the first without a purchase order and the
\* second with one.
C22_Witness ==
    /\ Len(orders) >= 2
    /\ orders[1].po_required = "No" /\ orders[1].po_number = E
    /\ orders[2].po_required = "Yes" /\ orders[2].po_number # E

\* C23: for every generated order, additional product, charges and special
\* charges are consistent: either all three are empty strings (not zeros), or
\* additional product is one of the named standard charges and charges is
\* its fixed price of STANDARD_CHARGES as a float; special charges is not
\* empty only when an additional charge is attached, and is then a float in
\* [10, 50].
C23_ChargesConsistent ==
    \A k \in 1..Len(Built) :
       LET o == Built[k] IN
       /\ \/ /\ o.additional_product = ""
             /\ o.charges = PyStr(E)
             /\ o.special_charges = PyStr(E)
          \/ /\ o.additional_product \in DOMAIN STANDARD_CHARGES
             /\ o.charges = PyFloat(STANDARD_CHARGES[o.additional_product])
       /\ o.special_charges # PyStr(E)
            => /\ o.additional_product # ""
               /\ o.special_charges.t = "float"
               /\ o.special_charges.v >= 10000
               /\ o.special_charges.v <= 50000

\* An order with the standard charge "Rush Delivery" at its fixed price and
\* a special charge at the upper end 50 of its range.
C23_Witness ==
    /\ Len(orders) = 1
    /\ orders[1].additional_product = "Rush Delivery"
    /\ orders[1].charges = PyFloat(95000)
    /\ orders[1].special_charges = PyFloat(50000)

\* The products that carry the name of order o.
ProductsNamed(o) ==
    {k \in 1..Len(products) : products[k].name = o.product_name}

\* C24: every Product built by from_row has min_price in [2.50, 3.20] and
\* max_price in [3.50, 4.50], hence min_price <= max_price; and the unit
\* price of every generated order lies within [min_price, max_price] of the
\* product whose name the order carries.
C24_PriceWithinBand ==
    /\ \A k \in 1..Len(products) :
          /\ products[k].min_price >= 2500 /\ products[k].min_price <= 3200
          /\ products[k].max_price >= 3500 /\ products[k].max_price <= 4500
          /\ products[k].min_price <= products[k].max_price
    /\ \A j \in 1..Len(Built) :
          /\ ProductsNamed(Built[j]) # {}
          /\ \A k \in ProductsNamed(Built[j]) :
                /\ products[k].min_price <= Built[j].unit_price
                /\ Built[j].unit_price <= products[k].max_price

\* An order priced at the upper end 3.50 of the narrowest band of its
\* product, [3.20, 3.50], the other product of the catalog having another band.
C24_Witness ==
    /\ Len(orders) = 1
    /\ orders[1].unit_price = 3500
    /\ \E k \in ProductsNamed(orders[1]) :
          products[k].min_price = 3200 /\ products[k].max_price = 3500
    /\ \E k \in 1..Len(products) :
          k \notin ProductsNamed(orders[1]) /\ products[k].max_price = 4500

-----------------------------------------------------------------------------
(* Accesses to the catalog files across generate_multi_year_reports *)

CatalogFiles == {"products", "customers", "sequences"}

\* The positions of the log of the report a at which the file f is read or
\* written.
Accesses(a, f) ==
    {j \in 1..Len(a.log) :
        a.log[j].file = f /\ a.log[j].ev \in {"read_csv", "write_csv"}}

-----------------------------------------------------------------------------
(* The taxes calculate_totals draws *)

\* C26: after calculate_totals on an order with unit_price >= 0 and
\* quantity >= 0, 0 <= exempt_taxes <= total_taxes, exempt_taxes is at most
\* 30% of total_taxes and total_taxes lies between 5% and 10% of
\* main_charges, both up to the rounding to the cent (half a cent), so that
\* total >= main_charges + additional_charges + special_charges.
C26_ExemptWithinTaxes ==
    (TotalsApplied /\ cur[1].unit_price >= 0 /\ cur[1].quantity >= 0) =>
       LET x    == cur[1]
           o    == orders[1]
           main == Round2(x.unit_price * x.quantity, 1)
       IN  /\ 0 <= o.exempt_taxes
           /\ o.exempt_taxes <= o.total_taxes
           /\ 10 * o.exempt_taxes <= 3 * o.total_taxes + 50
           /\ 20 * o.total_taxes >= main - 100
           /\ 10 * o.total_taxes <= main + 50
           /\ o.total >= main + ChargeAmount(x.charges)
                               + ChargeAmount(x.special_charges)

\* An order with a numeric charge whose exempt taxes were drawn at the upper
\* end and rounded up past 30% of its total taxes.
C26_Witness ==
    /\ TotalsApplied
    /\ cur[1].unit_price > 0 /\ cur[1].quantity > 0
    /\ cur[1].charges = PyFloat(85000)
    /\ orders[1].exempt_taxes > 0
    /\ 10 * orders[1].exempt_taxes > 3 * orders[1].total_taxes
    /\ orders[1].exempt_taxes < orders[1].total_taxes

\* The text of s between a prefix of p characters and the last "-".
YearMonthPart(s, p) == SubSeq(s, p + 1, LastDash(s) - 1)

\* C27: the identifiers of one generated order agree: its order number, its
\* bill of lading (never empty), its invoice number when present and its PO
\* number when present carry the same yyyymm, that of the requested month,
\* and the same 1-based generation index; and no two orders of a batch share
\* a bill of lading, an invoice number or a PO number.
C27_IdentifiersAgree ==
    /\ \A k \in 1..Len(Built) :
          LET o == Built[k] IN
          /\ IsIdNumber(o.order_number, <<"O", "R", "D", "-">>,
                        year, month, k, 4)
          /\ o.bol # E
          /\ IsIdNumber(o.bol, <<"B", "O", "L", "-">>, year, month, k, 4)
          /\ YearMonthPart(o.bol, 4) = YearMonthPart(o.order_number, 4)
          /\ OrderIndex(o.bol) = OrderIndex(o.order_number)
          /\ o.invoice_number # E
               => /\ IsIdNumber(o.invoice_number, <<"I", "N", "V", "-">>,
                                year, month, k, 4)
                  /\ YearMonthPart(o.invoice_number, 4)
                        = YearMonthPart(o.order_number, 4)
                  /\ OrderIndex(o.invoice_number) = OrderIndex(o.order_number)
          /\ o.po_number # E
               => /\ IsIdNumber(o.po_number, <<"P", "O", "-">>,
                                year, month, k, 3)
                  /\ YearMonthPart(o.po_number, 3)
                        = YearMonthPart(o.order_number, 4)
                  /\ OrderIndex(o.po_number) = OrderIndex(o.order_number)
    /\ \A k \in 1..Len(Built), l \in 1..Len(Built) :
          k # l =>
             /\ Built[k].bol # Built[l].bol
             /\ Built[k].invoice_number # E
                  => Built[k].invoice_number # Built[l].invoice_number
             /\ Built[k].po_number # E
                  => Built[k].po_number # Built[l].po_number

\* A batch of a three-digit year whose first two orders both carry an
\* invoice number and a PO number.
C27_Witness ==
    /\ year = 999
    /\ Len(orders) >= 2
    /\ \A k \in 1..2 : /\ orders[k].invoice_number # E
                        /\ orders[k].po_number # E
                        /\ orders[k].bol # E
    /\ OrderIndex(orders[2].po_number) = 2

====
